---- MODULE Spec2Model ----
(***************************************************************************)
(* Breakout-room coordination of backend/routes/breakoutRoomRoutes.js.     *)
(*                                                                         *)
(* Every route handler is an async function: it runs without interruption  *)
(* from one `await` to the next, and other requests run in between.  A     *)
(* handler is therefore one action per awaited store or bus operation.     *)
(* The two leading findOne calls of a handler are one action: the session  *)
(* document fields they read (hostId, participants) are written by no      *)
(* route of this file, so the session read commutes with every other step. *)
(*                                                                         *)
(* Documents are Mongoose documents.  save() on a found document sends     *)
(* only the modified paths: participants.push(x) is sent as an atomic      *)
(* $push of x (and $inc of the version key), participants.splice(...) as   *)
(* a $set of the whole array guarded by the version key read, and          *)
(* status/closedAt assignments as a $set of those two paths.               *)
(*                                                                         *)
(* Roster entries are modelled by their participant id: alias, avatar,     *)
(* joinedAt, isMuted and connectionStatus are copies or constants that no  *)
(* handler reads back.                                                     *)
(***************************************************************************)
EXTENDS Integers, Sequences, FiniteSets, Bags, TLC

VARIABLES
    sessions,   \* LiveSanctuarySession collection: session id -> document
    rooms,      \* BreakoutRoom collection: room id -> document
    events,     \* bag of the events handed to redisService.publishEvent
    clock,      \* the last value read from the wall clock (new Date())
    req,        \* the requests in flight: slot -> handler position and locals
    ops,        \* number of commands the clients may still issue
    last,       \* the last response sent (res.success / res.error)
    client      \* one browser: the React state of its breakout components and the
                \* responses on their way to it

vars == <<sessions, rooms, events, clock, req, ops, last, client>>

----------------------------------------------------------------------------
(* Bounds of the model *)

\* commands issued in one behaviour
MaxOps == 2
\* largest maxParticipants a CreateRoom request carries
MaxCap == 2

\* request handlers that may be in flight at once
Slots == {"a", "b"}
\* room ids nanoid can produce, in the order they are handed out
RoomIds == <<"r1", "r2", "r3">>
\* identities a request may carry (req.user.id)
Users == {"h1", "m1", "p1", "h2"}
\* session ids a request may carry; "s0" names no stored session
SessionParams == {"s1", "s2", "s0"}
\* room names a CreateRoom request may carry, as character sequences; the empty
\* one stands for a missing name
Names == {<<>>, <<"a">>, <<" ", "a", " ">>, <<"a", "b">>, <<" ", "a", "b">>}
\* clients that issue a single JoinRoom each and keep its response
RaceUsers == {"q1", "q2", "q3", "q4", "q5", "q6"}
\* the same clients in the order of the session roster
RaceRoster == <<"q1", "q2", "q3", "q4", "q5", "q6">>

----------------------------------------------------------------------------
(* Pure helpers *)

SeqToSet(q) == {q[i] : i \in 1..Len(q)}

\* session.participants.find(p => p.id === id): the position of the first
\* participant with this id, 0 when find returns undefined
FindParticipant(ps, id) ==
    IF \E i \in 1..Len(ps) : ps[i].id = id
    THEN CHOOSE i \in 1..Len(ps) :
            /\ ps[i].id = id
            /\ \A j \in 1..(i - 1) : ps[j].id # id
    ELSE 0

\* position of the first roster entry with this id, 0 when absent (findIndex)
FindIndex(roster, id) ==
    IF \E i \in 1..Len(roster) : roster[i] = id
    THEN CHOOSE i \in 1..Len(roster) :
            /\ roster[i] = id
            /\ \A j \in 1..(i - 1) : roster[j] # id
    ELSE 0

\* Array.prototype.pop: the last entry goes, whatever the index
Pop(roster, i) == SubSeq(roster, 1, Len(roster) - 1)

\* Array.prototype.splice(i, 1)
Splice(roster, i) == SubSeq(roster, 1, i - 1) \o SubSeq(roster, i + 1, Len(roster))

Participant(id, host, moderator) == [id |-> id, isHost |-> host, isModerator |-> moderator]

\* the response record of res.success / res.error
Response(op, actor, sid, rid, code, kind, n) ==
    [op |-> op, actor |-> actor, sid |-> sid, rid |-> rid, code |-> code, kind |-> kind,
     n |-> n]

NoResponse == Response("", "", "", "", 0, "", 0)

\* an event handed to redisService.publishEvent(topic, type, payload)
Event(scope, key, type, rid, who) ==
    [scope |-> scope, key |-> key, type |-> type, rid |-> rid, who |-> who]

\* redisService.publishEvent: the event is on the bus
Publish(bus, e) == bus (+) SetToBag({e})

NoDoc ==
    [sessionId |-> "", name |-> "", createdBy |-> "", maxParticipants |-> 0,
     status |-> "none", participants |-> <<>>, closedAt |-> 0, token |-> "", v |-> 0]

IdleReq ==
    [pc |-> "idle", op |-> "", actor |-> "", sid |-> "", rid |-> "",
     doc |-> NoDoc, docs |-> <<>>, plan |-> <<>>, count |-> 0, resp |-> NoResponse]

\* the browser before its components are mounted: the useState initial values of
\* WorkingBreakoutManager (breakoutRooms, currentUserRoom), of BreakoutRoomSpace
\* (participants) and of EnhancedFlagshipSanctuary (currentBreakoutRoom, with the
\* event its socket handed over last, none yet), no component mounted (and the bus as it was at the mount
\* empty), no response on its way, no create response handled, no event
\* delivered.  Room and participant entries are modelled by their id; null is the
\* empty string.
NoClient ==
    [mounted |-> {}, since |-> EmptyBag, breakoutRooms |-> <<>>, currentUserRoom |-> "",
     participants |-> <<>>, currentBreakoutRoom |-> "", received |-> <<>>,
     inflight |-> <<>>, handled |-> {}, delivered |-> 0]

----------------------------------------------------------------------------
(* The store: what save() writes *)

\* a save() that writes the whole document as the handler holds it
SaveDocument(stored, local) == [local EXCEPT !.v = stored.v + 1]

\* a save() that writes the version key and nothing else
SaveVersionOnly(stored, local) == [stored EXCEPT !.v = @ + 1]

\* save() after one participants.push on the local document: $push of the pushed
\* entry (the last of the local array) onto the stored array, $inc of the version
\* key; no other path is written
SavePush(stored, local) ==
    [stored EXCEPT !.participants = Append(@, local.participants[Len(local.participants)]),
                   !.v = @ + 1]

\* a save() that writes nothing
SaveUnchanged(stored, local) == stored

\* save() after participants.splice: $set of the whole array, $inc of the
\* version key, applied only when the stored version is the version read
SaveSplice(stored, local) ==
    [stored EXCEPT !.participants = local.participants, !.v = @ + 1]

\* a save() that writes every path of the closed document but the version key
SaveCloseWhole(stored, local) == [local EXCEPT !.v = stored.v]

\* save() after status = 'closed'; closedAt = new Date(): $set of the two paths
SaveClose(stored, local) ==
    [stored EXCEPT !.status = local.status, !.closedAt = local.closedAt]

----------------------------------------------------------------------------
(* Initial state *)

SessionA ==
    [hostId |-> "h1",
     participants |-> <<Participant("h1", TRUE, FALSE), Participant("m1", FALSE, TRUE),
                        Participant("p1", FALSE, FALSE)>>,
     breakoutRooms |-> <<>>]

SessionB ==
    [hostId |-> "h2",
     participants |-> <<Participant("h2", TRUE, FALSE), Participant("p1", FALSE, FALSE)>>,
     breakoutRooms |-> <<>>]

\* a room as the create route stores it
NewRoom(sid, name, creator, max, token) ==
    [sessionId |-> sid, name |-> name, createdBy |-> creator, maxParticipants |-> max,
     status |-> "active", participants |-> <<>>, closedAt |-> 0, token |-> token, v |-> 0]

\* a room-created event published on the topic of the room
RoomScopedCreatedEvent(sid, rid) == Event("breakout", rid, "breakout_room_created", rid, "")

\* the event the create route publishes on the session topic
CreatedEvent(sid, rid) == Event("session", sid, "breakout_room_created", rid, "")

\* The store after the host of s1 has created two rooms (two completed
\* CreateRoom commands), with capacities c1 and c2.
InitStore(c1, c2) ==
    /\ sessions = [x \in {"s1", "s2"} |->
                      IF x = "s1" THEN [SessionA EXCEPT !.breakoutRooms = <<"r1", "r2">>]
                      ELSE SessionB]
    /\ rooms = [x \in {"r1", "r2"} |->
                   NewRoom("s1", <<"a", "b">>, "h1", IF x = "r1" THEN c1 ELSE c2, "rtc")]
    /\ events = SetToBag({CreatedEvent("s1", "r1"), CreatedEvent("s1", "r2")})
    /\ clock = 0
    /\ client = NoClient
    /\ last = NoResponse

Init ==
    /\ \E c \in 1..MaxCap : InitStore(c, c)
    /\ req = [s \in Slots |-> IdleReq]
    /\ ops = MaxOps

----------------------------------------------------------------------------
(* Common steps of the handlers *)

\* a slot named by a user belongs to a client that issues one command and
\* keeps its response; any other slot is free again once the response is sent
Respond(s, r) ==
    /\ last' = r
    /\ req' = [req EXCEPT ![s] = IF s \in RaceUsers
                                 THEN [IdleReq EXCEPT !.pc = "done", !.resp = r]
                                 ELSE IdleReq]

\* a request arrives and is given to an idle handler
Accept(s) ==
    /\ req[s].pc = "idle"
    /\ ops > 0
    /\ ops' = ops - 1
    /\ UNCHANGED client

\* res.error(...) before the handler's first write
Reject(s, op, actor, sid, rid, code, kind) ==
    /\ Respond(s, Response(op, actor, sid, rid, code, kind, 0))
    /\ UNCHANGED <<sessions, rooms, events, clock>>

\* the handler goes on to its next await with these locals
Goto(s, locals) == req' = [req EXCEPT ![s] = locals]

\* the catch block of a handler: res.error('Failed to ...', 500)
Fail(s) ==
    Respond(s, Response(req[s].op, req[s].actor, req[s].sid, req[s].rid, 500, "failed", 0))

\* res.success(...)
Succeed(s, n) ==
    Respond(s, Response(req[s].op, req[s].actor, req[s].sid, req[s].rid, 200, "ok", n))

----------------------------------------------------------------------------
(* POST /:sessionId/breakout-rooms/:roomId/join *)

\* findOne session, findOne room, the checks, and participants.push
JoinBegin(s, actor, sid, rid) ==
    /\ Accept(s)
    /\ IF sid \notin DOMAIN sessions
       THEN Reject(s, "join", actor, sid, rid, 404, "noSession")
       ELSE IF FindParticipant(sessions[sid].participants, actor) = 0
       THEN Reject(s, "join", actor, sid, rid, 403, "notParticipant")
       ELSE IF rid \notin DOMAIN rooms
       THEN Reject(s, "join", actor, sid, rid, 404, "noRoom")
       ELSE IF rooms[rid].sessionId # sid
       THEN Reject(s, "join", actor, sid, rid, 400, "wrongSession")
       ELSE IF Len(rooms[rid].participants) >= rooms[rid].maxParticipants
       THEN Reject(s, "join", actor, sid, rid, 400, "full")
       ELSE IF FindIndex(rooms[rid].participants, actor) # 0
       THEN Reject(s, "join", actor, sid, rid, 400, "already")
       ELSE /\ Goto(s, [IdleReq EXCEPT !.pc = "joinSave", !.op = "join", !.actor = actor,
                            !.sid = sid, !.rid = rid,
                            !.doc = [rooms[rid] EXCEPT !.participants = Append(@, actor)]])
            /\ UNCHANGED <<sessions, rooms, events, clock, last>>

\* await breakoutRoom.save()
JoinSave(s) ==
    /\ req[s].pc = "joinSave"
    /\ rooms' = [rooms EXCEPT ![req[s].rid] = SavePush(@, req[s].doc)]
    /\ Goto(s, [req[s] EXCEPT !.pc = "joinPub1"])
    /\ UNCHANGED <<sessions, events, clock, ops, client, last>>

\* await publishEvent(`breakout:${roomId}`, 'participant_joined', ...)
JoinPub1(s) ==
    /\ req[s].pc = "joinPub1"
    /\ \/ /\ events' = Publish(events, Event("breakout", req[s].rid, "participant_joined",
                                             req[s].rid, req[s].actor))
          /\ Goto(s, [req[s] EXCEPT !.pc = "joinPub2"])
          /\ UNCHANGED last
       \/ /\ Fail(s)
          /\ UNCHANGED events
    /\ UNCHANGED <<sessions, rooms, clock, ops, client>>

\* await publishEvent(`session:${sessionId}`, 'breakout_room_joined', ...); res.success
JoinPub2(s) ==
    /\ req[s].pc = "joinPub2"
    /\ \/ /\ events' = Publish(events, Event("session", req[s].sid, "breakout_room_joined",
                                             req[s].rid, req[s].actor))
          /\ Succeed(s, Len(req[s].doc.participants))
       \/ /\ Fail(s)
          /\ UNCHANGED events
    /\ UNCHANGED <<sessions, rooms, clock, ops, client>>

----------------------------------------------------------------------------
(* POST /:sessionId/breakout-rooms/:roomId/leave *)

\* findOne room, findIndex, splice
LeaveBegin(s, actor, sid, rid) ==
    /\ Accept(s)
    /\ IF rid \notin DOMAIN rooms
       THEN Reject(s, "leave", actor, sid, rid, 404, "noRoom")
       ELSE IF FindIndex(rooms[rid].participants, actor) = 0
       THEN Reject(s, "leave", actor, sid, rid, 400, "notInRoom")
       ELSE /\ Goto(s, [IdleReq EXCEPT !.pc = "leaveSave", !.op = "leave", !.actor = actor,
                            !.sid = sid, !.rid = rid,
                            !.doc = [rooms[rid] EXCEPT !.participants =
                                        Splice(@, FindIndex(@, actor))]])
            /\ UNCHANGED <<sessions, rooms, events, clock, last>>

\* await breakoutRoom.save(): a VersionError when the array was written since the read
LeaveSave(s) ==
    /\ req[s].pc = "leaveSave"
    /\ IF rooms[req[s].rid].v = req[s].doc.v
       THEN /\ rooms' = [rooms EXCEPT ![req[s].rid] = SaveSplice(@, req[s].doc)]
            /\ Goto(s, [req[s] EXCEPT !.pc = "leavePub1"])
            /\ UNCHANGED last
       ELSE /\ Fail(s)
            /\ UNCHANGED rooms
    /\ UNCHANGED <<sessions, events, clock, ops, client>>

\* await publishEvent(`breakout:${roomId}`, 'participant_left', ...)
LeavePub1(s) ==
    /\ req[s].pc = "leavePub1"
    /\ \/ /\ events' = Publish(events, Event("breakout", req[s].rid, "participant_left",
                                             req[s].rid, req[s].actor))
          /\ Goto(s, [req[s] EXCEPT !.pc = "leavePub2"])
          /\ UNCHANGED last
       \/ /\ Fail(s)
          /\ UNCHANGED events
    /\ UNCHANGED <<sessions, rooms, clock, ops, client>>

\* await publishEvent(`session:${sessionId}`, 'breakout_room_left', ...); res.success
LeavePub2(s) ==
    /\ req[s].pc = "leavePub2"
    /\ \/ /\ events' = Publish(events, Event("session", req[s].sid, "breakout_room_left",
                                             req[s].rid, req[s].actor))
          /\ Succeed(s, Len(req[s].doc.participants))
       \/ /\ Fail(s)
          /\ UNCHANGED events
    /\ UNCHANGED <<sessions, rooms, clock, ops, client>>

----------------------------------------------------------------------------
(* DELETE /:sessionId/breakout-rooms/:roomId *)

\* a host check that lets moderators through, as the create route does
IsHostOrModerator(session, actor) ==
    \/ session.hostId = actor
    \/ \E i \in 1..Len(session.participants) :
          session.participants[i].id = actor /\ session.participants[i].isModerator

\* a host check that lets every participant of the session through
IsHostOrParticipant(session, actor) ==
    \/ session.hostId = actor
    \/ \E i \in 1..Len(session.participants) : session.participants[i].id = actor

\* the negation of session.hostId !== req.user.id
IsHost(session, actor) == session.hostId = actor

\* findOne session, the host check, findOne room, status = 'closed', closedAt = new Date()
CloseBegin(s, actor, sid, rid) ==
    /\ Accept(s)
    /\ IF sid \notin DOMAIN sessions
       THEN Reject(s, "close", actor, sid, rid, 404, "noSession")
       ELSE IF ~IsHost(sessions[sid], actor)
       THEN Reject(s, "close", actor, sid, rid, 403, "notHost")
       ELSE IF rid \notin DOMAIN rooms
       THEN Reject(s, "close", actor, sid, rid, 404, "noRoom")
       ELSE \E now \in {clock, clock + 1} :
            /\ clock' = now
            /\ Goto(s, [IdleReq EXCEPT !.pc = "closeSave", !.op = "close", !.actor = actor,
                            !.sid = sid, !.rid = rid,
                            !.doc = [rooms[rid] EXCEPT !.status = "closed", !.closedAt = now]])
            /\ UNCHANGED <<sessions, rooms, events, last>>

\* await breakoutRoom.save()
CloseSave(s) ==
    /\ req[s].pc = "closeSave"
    /\ rooms' = [rooms EXCEPT ![req[s].rid] = SaveClose(@, req[s].doc)]
    /\ Goto(s, [req[s] EXCEPT !.pc = "closePub1"])
    /\ UNCHANGED <<sessions, events, clock, ops, client, last>>

\* await publishEvent(`breakout:${roomId}`, 'room_closed', ...)
ClosePub1(s) ==
    /\ req[s].pc = "closePub1"
    /\ \/ /\ events' = Publish(events, Event("breakout", req[s].rid, "room_closed",
                                             req[s].rid, ""))
          /\ Goto(s, [req[s] EXCEPT !.pc = "closePub2"])
          /\ UNCHANGED last
       \/ /\ Fail(s)
          /\ UNCHANGED events
    /\ UNCHANGED <<sessions, rooms, clock, ops, client>>

\* await publishEvent(`session:${sessionId}`, 'breakout_room_closed', ...); res.success
ClosePub2(s) ==
    /\ req[s].pc = "closePub2"
    /\ \/ /\ events' = Publish(events, Event("session", req[s].sid, "breakout_room_closed",
                                             req[s].rid, ""))
          /\ Succeed(s, 0)
       \/ /\ Fail(s)
          /\ UNCHANGED events
    /\ UNCHANGED <<sessions, rooms, clock, ops, client>>

----------------------------------------------------------------------------
(* POST /:sessionId/breakout-rooms/auto-assign *)

\* a find by sessionId alone, whatever the status
RoomsOfSession(sid) ==
    LET Test(r) == r \in DOMAIN rooms /\ rooms[r].sessionId = sid
    IN  SelectSeq(RoomIds, Test)

\* a find that returns the active rooms of every session
AllActiveRooms(sid) ==
    LET Test(r) == r \in DOMAIN rooms /\ rooms[r].status = "active"
    IN  SelectSeq(RoomIds, Test)

\* BreakoutRoom.find({ sessionId, status: 'active' }): the ids in insertion order
ActiveRooms(sid) ==
    LET Test(r) == /\ r \in DOMAIN rooms
                   /\ rooms[r].sessionId = sid
                   /\ rooms[r].status = "active"
    IN  SelectSeq(RoomIds, Test)

\* the documents find() returns, by room id
FoundDocs(found) == [r \in SeqToSet(found) |-> rooms[r]]

\* no filter: every participant of the session is to be assigned
Everyone(ps, found, docs) == ps

\* session.participants.filter(p => !breakoutRooms.some(room => room.participants.some(...)))
Unassigned(ps, found, docs) ==
    LET Test(p) == \A i \in 1..Len(found) : FindIndex(docs[found[i]].participants, p.id) = 0
    IN  SelectSeq(ps, Test)

\* targetRoom.participants.push(roomParticipant) on the local documents
PushLocal(docs, assignment) ==
    [docs EXCEPT ![assignment[2]].participants = Append(@, assignment[1])]

\* the loop with roomIndex advanced only when an assignment is made
RECURSIVE AssignLoopOnCommit(_, _, _, _)
AssignLoopOnCommit(ps, i, found, docs) ==
    IF ps = <<>> THEN <<>>
    ELSE LET targetRoom == found[(i % Len(found)) + 1]
         IN  IF Len(docs[targetRoom].participants) < docs[targetRoom].maxParticipants
             THEN <<<<Head(ps).id, targetRoom>>>>
                    \o AssignLoopOnCommit(Tail(ps), i + 1, found,
                                          PushLocal(docs, <<Head(ps).id, targetRoom>>))
             ELSE AssignLoopOnCommit(Tail(ps), i, found, docs)

\* The for loop over unassignedParticipants, from roomIndex i on the local
\* documents docs: the <<participant id, room id>> pairs it pushes and saves, in order.
RECURSIVE AssignLoop(_, _, _, _)
AssignLoop(ps, i, found, docs) ==
    IF ps = <<>> THEN <<>>
    ELSE LET targetRoom == found[(i % Len(found)) + 1]
         IN  IF Len(docs[targetRoom].participants) < docs[targetRoom].maxParticipants
             THEN <<<<Head(ps).id, targetRoom>>>>
                    \o AssignLoop(Tail(ps), i + 1, found,
                                  PushLocal(docs, <<Head(ps).id, targetRoom>>))
             ELSE AssignLoop(Tail(ps), i + 1, found, docs)

\* the assignments one run makes on the rooms it found
AssignPlan(ps, found, docs) == AssignLoop(ps, 0, found, docs)

\* findOne session, the host check, find active rooms, the filter, and the loop up
\* to its first await
AutoBegin(s, actor, sid) ==
    /\ Accept(s)
    /\ IF sid \notin DOMAIN sessions
       THEN Reject(s, "auto", actor, sid, "", 404, "noSession")
       ELSE IF ~IsHost(sessions[sid], actor)
       THEN Reject(s, "auto", actor, sid, "", 403, "notHost")
       ELSE IF Len(ActiveRooms(sid)) = 0
       THEN Reject(s, "auto", actor, sid, "", 400, "noActiveRooms")
       ELSE LET found == ActiveRooms(sid)
                docs == FoundDocs(found)
                unassigned == Unassigned(sessions[sid].participants, found, docs)
                plan == AssignPlan(unassigned, found, docs)
            IN  IF plan = <<>>
                THEN /\ Respond(s, Response("auto", actor, sid, "", 200,
                                            IF unassigned = <<>> THEN "allAssigned" ELSE "ok",
                                            Len(unassigned)))
                     /\ UNCHANGED <<sessions, rooms, events, clock>>
                ELSE /\ Goto(s, [IdleReq EXCEPT !.pc = "autoSave", !.op = "auto",
                                     !.actor = actor, !.sid = sid, !.plan = plan,
                                     !.docs = PushLocal(docs, plan[1]),
                                     !.count = Len(unassigned)])
                     /\ UNCHANGED <<sessions, rooms, events, clock, last>>

\* targetRoom.participants.push(roomParticipant); await targetRoom.save()
AutoSave(s) ==
    /\ req[s].pc = "autoSave"
    /\ rooms' = [rooms EXCEPT ![req[s].plan[1][2]] = SavePush(@, req[s].docs[req[s].plan[1][2]])]
    /\ Goto(s, [req[s] EXCEPT !.pc = "autoPub"])
    /\ UNCHANGED <<sessions, events, clock, ops, client, last>>

\* the loop without its publishEvent call
AutoPubNothing(s) ==
    /\ req[s].pc = "autoPub"
    /\ IF Len(req[s].plan) = 1
       THEN Succeed(s, req[s].count)
       ELSE /\ Goto(s, [req[s] EXCEPT !.pc = "autoSave", !.plan = Tail(@),
                                       !.docs = PushLocal(@, req[s].plan[2])])
            /\ UNCHANGED last
    /\ UNCHANGED <<sessions, rooms, events, clock, ops, client>>

\* await publishEvent(`user:${participant.id}`, 'auto_assigned_to_breakout', ...), then
\* the loop up to its next await, or res.success after the last participant
AutoPub(s) ==
    /\ req[s].pc = "autoPub"
    /\ \/ /\ events' = Publish(events, Event("user", req[s].plan[1][1],
                                             "auto_assigned_to_breakout",
                                             req[s].plan[1][2], req[s].plan[1][1]))
          /\ IF Len(req[s].plan) = 1
             THEN Succeed(s, req[s].count)
             ELSE /\ Goto(s, [req[s] EXCEPT !.pc = "autoSave", !.plan = Tail(@),
                                             !.docs = PushLocal(@, req[s].plan[2])])
                  /\ UNCHANGED last
       \/ /\ Fail(s)
          /\ UNCHANGED events
    /\ UNCHANGED <<sessions, rooms, clock, ops, client>>

----------------------------------------------------------------------------
(* GET /:sessionId/breakout-rooms *)

\* a canJoin that looks at the roster only
NotInRoster(room, actor) == FindIndex(room.participants, actor) = 0

\* a canJoin that looks at the free places only
HasFreePlace(room, actor) == Len(room.participants) < room.maxParticipants

\* room.participants.length < room.maxParticipants && !room.participants.find(...)
CanJoin(room, actor) ==
    /\ Len(room.participants) < room.maxParticipants
    /\ FindIndex(room.participants, actor) = 0

\* one entry of roomList
RoomSummary(r, actor) ==
    [id |-> r,
     maxParticipants |-> rooms[r].maxParticipants,
     currentParticipants |-> Len(rooms[r].participants),
     participants |-> rooms[r].participants,
     canJoin |-> CanJoin(rooms[r], actor)]

\* res.success({ rooms: roomList, totalRooms: roomList.length })
ListResponse(actor, sid, roomList) ==
    [op |-> "list", actor |-> actor, sid |-> sid, rid |-> "", code |-> 200, kind |-> "ok",
     n |-> Len(roomList), rooms |-> roomList]

\* findOne session, the participant check, find active rooms sorted by createdAt
\* (the order in which the ids were handed out), map, res.success
List(s, actor, sid) ==
    /\ Accept(s)
    /\ IF sid \notin DOMAIN sessions
       THEN Reject(s, "list", actor, sid, "", 404, "noSession")
       ELSE IF FindParticipant(sessions[sid].participants, actor) = 0
       THEN Reject(s, "list", actor, sid, "", 403, "notParticipant")
       ELSE LET found == ActiveRooms(sid)
            IN  /\ Respond(s, ListResponse(actor, sid,
                                [k \in 1..Len(found) |-> RoomSummary(found[k], actor)]))
                /\ UNCHANGED <<sessions, rooms, events, clock>>

----------------------------------------------------------------------------
(* POST /:sessionId/breakout-rooms *)

\* const { name, maxParticipants = 10 } = req.body
DefaultMaxParticipants == 10

\* String.prototype.trim on a string given as its sequence of characters
RECURSIVE TrimStart(_)
TrimStart(str) ==
    IF str # <<>> /\ Head(str) = " " THEN TrimStart(Tail(str)) ELSE str

RECURSIVE TrimEnd(_)
TrimEnd(str) ==
    IF str # <<>> /\ str[Len(str)] = " " THEN TrimEnd(SubSeq(str, 1, Len(str) - 1)) ELSE str

Trim(str) == TrimEnd(TrimStart(str))

\* a name check that measures the name as sent
UntrimmedBadName(name) == name = <<>> \/ Len(name) < 2

\* !name || name.trim().length < 2
BadName(name) == name = <<>> \/ Len(Trim(name)) < 2

\* nanoid: an id no stored room and no create in flight has
FreshRoomIds ==
    {r \in SeqToSet(RoomIds) :
        /\ r \notin DOMAIN rooms
        /\ \A s \in DOMAIN req : req[s].op = "create" => req[s].rid # r}

\* a token that never carries the placeholder prefix
UntaggedToken(issuerOk) == "rtc"

\* generateRtcToken, or the temp_breakout_token_ placeholder of the catch block
IssueToken(issuerOk) == IF issuerOk THEN "rtc" ELSE "temp_breakout_token"

\* a privilege check that only asks for a session participant
IsParticipant(session, actor) == FindParticipant(session.participants, actor) # 0

\* the negation of !participant || (!participant.isHost && !participant.isModerator)
CanCreate(session, actor) ==
    LET i == FindParticipant(session.participants, actor)
    IN  i # 0 /\ (session.participants[i].isHost \/ session.participants[i].isModerator)

\* findOne session, the privilege and name checks, the ids, the token, new BreakoutRoom
CreateBegin(s, actor, sid, body, issuerOk) ==
    LET name == IF "name" \in DOMAIN body THEN body.name ELSE <<>>
        maxParticipants == IF "maxParticipants" \in DOMAIN body
                           THEN body.maxParticipants ELSE DefaultMaxParticipants
    IN
    /\ Accept(s)
    /\ IF sid \notin DOMAIN sessions
       THEN Reject(s, "create", actor, sid, "", 404, "noSession")
       ELSE IF ~CanCreate(sessions[sid], actor)
       THEN Reject(s, "create", actor, sid, "", 403, "notPrivileged")
       ELSE IF BadName(name)
       THEN Reject(s, "create", actor, sid, "", 400, "name")
       ELSE \E rid \in FreshRoomIds :
            /\ \A other \in FreshRoomIds : FindIndex(RoomIds, rid) <= FindIndex(RoomIds, other)
            /\ Goto(s, [IdleReq EXCEPT !.pc = "createSave", !.op = "create", !.actor = actor,
                            !.sid = sid, !.rid = rid,
                            !.doc = NewRoom(sid, Trim(name), actor, maxParticipants,
                                            IssueToken(issuerOk))])
            /\ UNCHANGED <<sessions, rooms, events, clock, last>>

\* await breakoutRoom.save()
CreateSave(s) ==
    /\ req[s].pc = "createSave"
    /\ rooms' = [r \in DOMAIN rooms \cup {req[s].rid} |->
                    IF r = req[s].rid THEN req[s].doc ELSE rooms[r]]
    /\ Goto(s, [req[s] EXCEPT !.pc = "createLink"])
    /\ UNCHANGED <<sessions, events, clock, ops, client, last>>

\* session.breakoutRooms.push(breakoutRoom._id); await session.save()
CreateLink(s) ==
    /\ req[s].pc = "createLink"
    /\ sessions' = [sessions EXCEPT ![req[s].sid].breakoutRooms = Append(@, req[s].rid)]
    /\ Goto(s, [req[s] EXCEPT !.pc = "createPub"])
    /\ UNCHANGED <<rooms, events, clock, ops, client, last>>

\* await publishEvent(`session:${sessionId}`, 'breakout_room_created', ...); res.success
CreatePub(s) ==
    /\ req[s].pc = "createPub"
    /\ \/ /\ events' = Publish(events, CreatedEvent(req[s].sid, req[s].rid))
          /\ Succeed(s, 0)
       \/ /\ Fail(s)
          /\ UNCHANGED events
    /\ UNCHANGED <<sessions, rooms, clock, ops, client>>

----------------------------------------------------------------------------
(* The browser: WorkingBreakoutManager and BreakoutRoomSpace *)

\* socket events delivered to the browser in one behaviour
MaxDeliver == 2

\* currentUser.id, sessionId and roomId of the mounted components
Me == "h1"
MySession == "s1"
MyRoom == "r1"

\* the events published since the component was mounted
Published == BagToSet(events (-) client.since)

\* the events the socket of the session hands to the manager: every event that
\* was published on the topic of the session since the mount may arrive, in any
\* order and any number of times
SessionFeed(type) ==
    {e \in Published : e.scope = "session" /\ e.key = MySession /\ e.type = type}

\* the events the socket of the room hands to the room space
RoomFeed(type) ==
    {e \in Published : e.scope = "breakout" /\ e.key = MyRoom /\ e.type = type}

\* one more event has been delivered
Delivered == [client EXCEPT !.delivered = @ + 1]

\* the frame of a step of the browser
ServerUnchanged == UNCHANGED <<sessions, rooms, events, clock, req, ops, last>>

\* the ids of the entries of a room list
Ids(roomList) == [k \in 1..Len(roomList) |-> roomList[k].id]

\* the body of the 200 response to GET /:sessionId/breakout-rooms for this user,
\* <<>> stands for a response that is not ok
FetchedRooms ==
    IF MySession \in DOMAIN sessions
       /\ FindParticipant(sessions[MySession].participants, Me) # 0
    THEN LET found == ActiveRooms(MySession)
         IN  <<[k \in 1..Len(found) |-> RoomSummary(found[k], Me)]>>
    ELSE <<>>

\* the effect of a mount: the component listens to its socket and its fetch is
\* served, the response is on its way to the component
Mount(component) ==
    /\ client.mounted = {}
    /\ FetchedRooms # <<>>
    /\ client' = [client EXCEPT !.mounted = {component}, !.since = events,
                                !.inflight = <<[to |-> component, rooms |-> FetchedRooms[1]]>>]
    /\ ServerUnchanged

\* useEffect(() => { fetchBreakoutRooms(); }, [sessionId])
MountManager == Mount("manager")

\* rooms.find(room => room.participants.some(p => p.id === currentUser.id)):
\* the position of the first such room, 0 when there is none
UserRoom(roomList) ==
    IF \E k \in 1..Len(roomList) : FindIndex(roomList[k].participants, Me) # 0
    THEN CHOOSE k \in 1..Len(roomList) :
            /\ FindIndex(roomList[k].participants, Me) # 0
            /\ \A j \in 1..(k - 1) : FindIndex(roomList[j].participants, Me) = 0
    ELSE 0

\* fetchBreakoutRooms after the await: setBreakoutRooms(rooms), and
\* setCurrentUserRoom(userRoom.id) if a fetched room holds the user
ManagerFetched ==
    /\ "manager" \in client.mounted
    /\ client.inflight # <<>>
    /\ client.inflight[1].to = "manager"
    /\ LET roomList == client.inflight[1].rooms
           k == UserRoom(roomList)
       IN  client' = [client EXCEPT !.inflight = <<>>,
                                    !.breakoutRooms = Ids(roomList),
                                    !.currentUserRoom = IF k # 0 THEN roomList[k].id ELSE @]
    /\ ServerUnchanged

\* a 200 response to the user's CreateRoom that createBreakoutRoom has not handled
CreateResponseArrived ==
    /\ "manager" \in client.mounted
    /\ req["a"].pc = "idle"
    /\ last.op = "create"
    /\ last.actor = Me
    /\ last.code = 200
    /\ last.rid \notin client.handled

\* createBreakoutRoom after the await, response.ok:
\* setBreakoutRooms(prev => [...prev, newRoom])
CreateResponded ==
    /\ CreateResponseArrived
    /\ client' = [client EXCEPT !.breakoutRooms = Append(@, last.rid),
                                !.handled = @ \cup {last.rid}]
    /\ ServerUnchanged

\* handleBreakoutRoomCreated: setBreakoutRooms(prev => [...prev, data.room])
OnBreakoutRoomCreated ==
    /\ "manager" \in client.mounted
    /\ client.delivered < MaxDeliver
    /\ \E e \in SessionFeed("breakout_room_created") :
          client' = [Delivered EXCEPT !.breakoutRooms = Append(@, e.rid)]
    /\ ServerUnchanged

\* handleBreakoutRoomJoined and handleBreakoutRoomLeft: fetchBreakoutRooms(), the
\* request is served and its response is on its way; one fetch is in flight at a time
OnBreakoutRoomJoinedOrLeft ==
    /\ "manager" \in client.mounted
    /\ client.delivered < MaxDeliver
    /\ client.inflight = <<>>
    /\ FetchedRooms # <<>>
    /\ SessionFeed("breakout_room_joined") \cup SessionFeed("breakout_room_left") # {}
    /\ client' = [Delivered EXCEPT
                     !.inflight = <<[to |-> "manager", rooms |-> FetchedRooms[1]]>>]
    /\ ServerUnchanged

\* prev.filter(x => x.id !== id)
FilterOut(list, id) ==
    LET F[k \in 0..Len(list)] ==
            IF k = 0 THEN <<>>
            ELSE IF list[k] = id THEN F[k - 1] ELSE Append(F[k - 1], list[k])
    IN  F[Len(list)]

\* handleBreakoutRoomClosed: the room is filtered out of the list, and
\* currentUserRoom is reset when it is the closed room
OnBreakoutRoomClosed ==
    /\ "manager" \in client.mounted
    /\ client.delivered < MaxDeliver
    /\ \E e \in SessionFeed("breakout_room_closed") :
          client' = [Delivered EXCEPT
                        !.breakoutRooms = FilterOut(@, e.rid),
                        !.currentUserRoom = IF @ = e.rid THEN "" ELSE @]
    /\ ServerUnchanged

\* useEffect(() => { fetchRoomInfo(); }, [roomId])
MountSpace == Mount("space")

\* data.data?.rooms?.find(r => r.id === roomId): its position, 0 when absent
FindRoom(roomList, rid) == FindIndex(Ids(roomList), rid)

\* fetchRoomInfo after the await: setParticipants(room.participants || []) when
\* the list holds the room
RoomInfoFetched ==
    /\ "space" \in client.mounted
    /\ client.inflight # <<>>
    /\ client.inflight[1].to = "space"
    /\ LET roomList == client.inflight[1].rooms
           k == FindRoom(roomList, MyRoom)
       IN  client' = [client EXCEPT !.inflight = <<>>,
                                    !.participants = IF k # 0 THEN roomList[k].participants
                                                     ELSE @]
    /\ ServerUnchanged

\* socket.onEvent('participant_joined'): setParticipants(prev => [...prev, data.participant])
OnParticipantJoined ==
    /\ "space" \in client.mounted
    /\ client.delivered < MaxDeliver
    /\ \E e \in RoomFeed("participant_joined") :
          client' = [Delivered EXCEPT !.participants = Append(@, e.who)]
    /\ ServerUnchanged

\* socket.onEvent('participant_left'):
\* setParticipants(prev => prev.filter(p => p.id !== data.participantId))
OnParticipantLeft ==
    /\ "space" \in client.mounted
    /\ client.delivered < MaxDeliver
    /\ \E e \in RoomFeed("participant_left") :
          client' = [Delivered EXCEPT !.participants = FilterOut(@, e.who)]
    /\ ServerUnchanged

\* the socket effect of the session page (the page has joined the session): its
\* handlers listen from now on
MountPage ==
    /\ client.mounted = {}
    /\ client' = [client EXCEPT !.mounted = {"page"}, !.since = events]
    /\ ServerUnchanged

\* handleBreakoutRoomJoined of the session page: setCurrentBreakoutRoom(data.roomId)
OnPageBreakoutRoomJoined ==
    /\ "page" \in client.mounted
    /\ client.delivered < MaxDeliver
    /\ \E e \in SessionFeed("breakout_room_joined") :
          client' = [Delivered EXCEPT !.currentBreakoutRoom = e.rid, !.received = <<e>>]
    /\ ServerUnchanged

\* handleBreakoutRoomLeft of the session page: setCurrentBreakoutRoom(null)
OnPageBreakoutRoomLeft ==
    /\ "page" \in client.mounted
    /\ client.delivered < MaxDeliver
    /\ \E e \in SessionFeed("breakout_room_left") :
          client' = [Delivered EXCEPT !.currentBreakoutRoom = "", !.received = <<e>>]
    /\ ServerUnchanged

----------------------------------------------------------------------------
(* Specifications *)

\* the commands of the general specification: the moderator and the plain
\* participant of s1 join and leave its two rooms, the host closes them, assigns
\* automatically and creates a third room
Members == {"m1", "p1"}

Bodies == {[name |-> <<"a", "b">>, maxParticipants |-> MaxCap]}

Next ==
    \E s \in Slots :
        \/ \E actor \in Members, rid \in {"r1", "r2"} : JoinBegin(s, actor, "s1", rid)
        \/ JoinSave(s)
        \/ JoinPub1(s)
        \/ JoinPub2(s)
        \/ \E actor \in Members, rid \in {"r1", "r2"} : LeaveBegin(s, actor, "s1", rid)
        \/ LeaveSave(s)
        \/ LeavePub1(s)
        \/ LeavePub2(s)
        \/ \E rid \in {"r1", "r2"} : CloseBegin(s, "h1", "s1", rid)
        \/ CloseSave(s)
        \/ ClosePub1(s)
        \/ ClosePub2(s)
        \/ AutoBegin(s, "h1", "s1")
        \/ AutoSave(s)
        \/ AutoPub(s)
        \/ \E body \in Bodies : CreateBegin(s, "h1", "s1", body, TRUE)
        \/ CreateSave(s)
        \/ CreateLink(s)
        \/ CreatePub(s)

Spec == Init /\ [][Next]_vars

----------------------------------------------------------------------------
(* Concurrent joins of one room: every client of RaceUsers is a plain participant
   of s1 and issues one JoinRoom on r1, whose capacity leaves five of them out. *)

RaceCap == Cardinality(RaceUsers) - 5

RaceInit ==
    /\ sessions = [x \in {"s1"} |->
                      [hostId |-> "h1",
                       participants |-> <<Participant("h1", TRUE, FALSE)>>
                            \o [i \in 1..Len(RaceRoster) |->
                                    Participant(RaceRoster[i], FALSE, FALSE)],
                       breakoutRooms |-> <<"r1">>]]
    /\ rooms = [x \in {"r1"} |-> NewRoom("s1", <<"a", "b">>, "h1", RaceCap, "rtc")]
    /\ events = SetToBag({CreatedEvent("s1", "r1")})
    /\ clock = 0
    /\ client = NoClient
    /\ last = NoResponse
    /\ req = [u \in RaceUsers |-> IdleReq]
    /\ ops = Cardinality(RaceUsers)

\* The clients differ in their name only, so the requests are named in the order
\* in which they arrive: a client's request arrives after those of the clients
\* before it in the roster.  The server handles as many requests at once as the
\* general specification has handlers; a later request waits for a free handler.
Arrived(u) ==
    /\ \A i \in 1..Len(RaceRoster) :
          i < FindIndex(RaceRoster, u) => req[RaceRoster[i]].pc # "idle"
    /\ Cardinality({x \in RaceUsers : req[x].pc \notin {"idle", "done"}})
          < Cardinality(Slots)

RaceNext ==
    \E u \in RaceUsers :
        \/ Arrived(u) /\ JoinBegin(u, u, "s1", "r1")
        \/ JoinSave(u)
        \/ JoinPub1(u)
        \/ JoinPub2(u)

SpecJoinRace == RaceInit /\ [][RaceNext]_vars

----------------------------------------------------------------------------
(* CloseRoom by any identity, on any session id, on a stored and on a missing room *)

CloseNext ==
    \E s \in Slots :
        \/ \E actor \in Users, sid \in SessionParams, rid \in {"r1", "r3"} :
              CloseBegin(s, actor, sid, rid)
        \/ CloseSave(s)
        \/ ClosePub1(s)
        \/ ClosePub2(s)

SpecClose == Init /\ [][CloseNext]_vars

----------------------------------------------------------------------------
(* CreateRoom by any identity, on any session id, from the empty room collection *)

CreateInit ==
    /\ sessions = [x \in {"s1", "s2"} |-> IF x = "s1" THEN SessionA ELSE SessionB]
    /\ rooms = [x \in {} |-> NoDoc]
    /\ events = EmptyBag
    /\ clock = 0
    /\ client = NoClient
    /\ last = NoResponse
    /\ req = [s \in Slots |-> IdleReq]
    /\ ops = MaxOps

CreateNext ==
    \E s \in Slots :
        \/ \E actor \in Users, sid \in SessionParams, body \in Bodies, issuerOk \in BOOLEAN :
              CreateBegin(s, actor, sid, body, issuerOk)
        \/ CreateSave(s)
        \/ CreateLink(s)
        \/ CreatePub(s)

SpecCreate == CreateInit /\ [][CreateNext]_vars

----------------------------------------------------------------------------
(* CreateRoom by the host of s1 with any request body: every name of Names or no
   name, a maxParticipants that is negative, zero, positive or left out, and a
   credential issuer that answers or throws *)

CapInputs == {-1, 0} \cup 1..MaxCap

ValidationBodies ==
    {[name |-> n, maxParticipants |-> c] : n \in Names, c \in CapInputs}
        \cup {[name |-> n] : n \in Names}
        \cup {[maxParticipants |-> c] : c \in CapInputs}

CreateBodyNext ==
    \E s \in Slots :
        \/ \E body \in ValidationBodies, issuerOk \in BOOLEAN :
              CreateBegin(s, "h1", "s1", body, issuerOk)
        \/ CreateSave(s)
        \/ CreateLink(s)
        \/ CreatePub(s)

SpecCreateBody == CreateInit /\ [][CreateBodyNext]_vars

----------------------------------------------------------------------------
(* CreateRoom by the host of s1 with every name of Names, or with no name *)

NameBodies ==
    {[name |-> n, maxParticipants |-> MaxCap] : n \in Names}
        \cup {[maxParticipants |-> MaxCap]}

CreateNameNext ==
    \E s \in Slots :
        \/ \E body \in NameBodies, issuerOk \in BOOLEAN :
              CreateBegin(s, "h1", "s1", body, issuerOk)
        \/ CreateSave(s)
        \/ CreateLink(s)
        \/ CreatePub(s)

SpecCreateName == CreateInit /\ [][CreateNameNext]_vars

----------------------------------------------------------------------------
(* JoinRoom by any identity on any session id and room id, and AutoAssign by the
   two hosts, on a store where each session owns one room *)

MembershipInit ==
    /\ \E c \in 1..MaxCap :
          rooms = [x \in {"r1", "r2"} |->
                      NewRoom(IF x = "r1" THEN "s1" ELSE "s2", <<"a", "b">>,
                              IF x = "r1" THEN "h1" ELSE "h2", c, "rtc")]
    /\ sessions = [x \in {"s1", "s2"} |->
                      IF x = "s1" THEN [SessionA EXCEPT !.breakoutRooms = <<"r1">>]
                      ELSE [SessionB EXCEPT !.breakoutRooms = <<"r2">>]]
    /\ events = SetToBag({CreatedEvent("s1", "r1"), CreatedEvent("s2", "r2")})
    /\ clock = 0
    /\ client = NoClient
    /\ last = NoResponse
    /\ req = [s \in Slots |-> IdleReq]
    /\ ops = MaxOps

MembershipNext ==
    \E s \in Slots :
        \/ \E actor \in Users, sid \in SessionParams, rid \in SeqToSet(RoomIds) :
              JoinBegin(s, actor, sid, rid)
        \/ JoinSave(s)
        \/ JoinPub1(s)
        \/ JoinPub2(s)
        \/ \E actor \in {"h1", "h2"}, sid \in {"s1", "s2"} : AutoBegin(s, actor, sid)
        \/ AutoSave(s)
        \/ AutoPub(s)

SpecMembership == MembershipInit /\ [][MembershipNext]_vars

----------------------------------------------------------------------------
(* One client at a time: a single handler serves the commands one after the
   other, on a store where participants of s1 have already joined room r1 *)

\* the rosters that joins of participants of s1 leave in a room of capacity c
Rosters(c) ==
    {q \in UNION {[1..n -> {"h1", "m1", "p1"}] : n \in 0..c} :
        \A i, j \in 1..Len(q) : i # j => q[i] # q[j]}

\* the events the joins behind a roster have published
JoinedEvents(sid, rid, roster) ==
    {Event("breakout", rid, "participant_joined", rid, roster[i]) : i \in 1..Len(roster)}
        \cup {Event("session", sid, "breakout_room_joined", rid, roster[i]) :
                  i \in 1..Len(roster)}

\* the store after one CreateRoom in s1 and the joins behind a roster
SeqStore ==
    /\ \E c \in 1..MaxCap, q \in Rosters(MaxCap) :
          /\ Len(q) <= c
          /\ rooms = [x \in {"r1"} |->
                         [NewRoom("s1", <<"a", "b">>, "h1", c, "rtc")
                             EXCEPT !.participants = q, !.v = Len(q)]]
          /\ events = SetToBag({CreatedEvent("s1", "r1")} \cup JoinedEvents("s1", "r1", q))
    /\ sessions = [x \in {"s1", "s2"} |->
                      IF x = "s1" THEN [SessionA EXCEPT !.breakoutRooms = <<"r1">>]
                      ELSE SessionB]
    /\ clock = 0
    /\ client = NoClient
    /\ last = NoResponse
    /\ req = [s \in {"a"} |-> IdleReq]

SeqInit == SeqStore /\ ops = MaxOps + 1

SeqNext ==
    \/ \E actor \in Members : JoinBegin("a", actor, "s1", "r1")
    \/ JoinSave("a")
    \/ JoinPub1("a")
    \/ JoinPub2("a")
    \/ \E actor \in Members : LeaveBegin("a", actor, "s1", "r1")
    \/ LeaveSave("a")
    \/ LeavePub1("a")
    \/ LeavePub2("a")
    \/ CloseBegin("a", "h1", "s1", "r1")
    \/ CloseSave("a")
    \/ ClosePub1("a")
    \/ ClosePub2("a")
    \/ \E body \in Bodies : CreateBegin("a", "h1", "s1", body, TRUE)
    \/ CreateSave("a")
    \/ CreateLink("a")
    \/ CreatePub("a")

SpecSeq == SeqInit /\ [][SeqNext]_vars

----------------------------------------------------------------------------
(* JoinRoom, LeaveRoom and CloseRoom, one at a time, by any identity, on a stored
   and on a missing session, on a stored and on a missing room *)

RejectInit == SeqStore /\ ops = MaxOps

RejectNext ==
    \/ \E actor \in Users, sid \in SessionParams, rid \in {"r1", "r3"} :
          JoinBegin("a", actor, sid, rid)
    \/ JoinSave("a")
    \/ JoinPub1("a")
    \/ JoinPub2("a")
    \/ \E actor \in Users, sid \in SessionParams, rid \in {"r1", "r3"} :
          LeaveBegin("a", actor, sid, rid)
    \/ LeaveSave("a")
    \/ LeavePub1("a")
    \/ LeavePub2("a")
    \/ \E actor \in Users, sid \in SessionParams, rid \in {"r1", "r3"} :
          CloseBegin("a", actor, sid, rid)
    \/ CloseSave("a")
    \/ ClosePub1("a")
    \/ ClosePub2("a")

SpecReject == RejectInit /\ [][RejectNext]_vars

----------------------------------------------------------------------------
(* One client issues JoinRoom, LeaveRoom, JoinRoom, ... on room r1 of s1, each
   command after the answer to the one before.  Next to the handler, the entry
   "snapshot" of req holds the room document as it was stored before the first
   command; no step writes it. *)

RoundTripInit ==
    /\ \E c \in 1..MaxCap, q \in Rosters(MaxCap) :
          /\ Len(q) <= c
          /\ rooms = [x \in {"r1"} |->
                         [NewRoom("s1", <<"a", "b">>, "h1", c, "rtc")
                             EXCEPT !.participants = q, !.v = Len(q)]]
          /\ events = SetToBag({CreatedEvent("s1", "r1")} \cup JoinedEvents("s1", "r1", q))
    /\ sessions = [x \in {"s1", "s2"} |->
                      IF x = "s1" THEN [SessionA EXCEPT !.breakoutRooms = <<"r1">>]
                      ELSE SessionB]
    /\ clock = 0
    /\ client = NoClient
    /\ last = NoResponse
    /\ req = [s \in {"a", "snapshot"} |->
                 IF s = "a" THEN IdleReq
                 ELSE [IdleReq EXCEPT !.pc = "done", !.rid = "r1", !.doc = rooms["r1"]]]
    /\ ops = MaxOps + 1

\* commands the client has issued
Issued == (MaxOps + 1) - ops

RoundTripNext ==
    \/ /\ Issued = 0
       /\ \E actor \in Users : JoinBegin("a", actor, "s1", "r1")
    \/ /\ Issued > 0 /\ Issued % 2 = 0
       /\ JoinBegin("a", last.actor, "s1", "r1")
    \/ JoinSave("a")
    \/ JoinPub1("a")
    \/ JoinPub2("a")
    \/ /\ Issued % 2 = 1
       /\ LeaveBegin("a", last.actor, "s1", "r1")
    \/ LeaveSave("a")
    \/ LeavePub1("a")
    \/ LeavePub2("a")

SpecRoundTrip == RoundTripInit /\ [][RoundTripNext]_vars

----------------------------------------------------------------------------
(* AutoAssign run alone: one command, by any identity, on a store where s1 has
   three or five participants and two rooms, each active or closed, with
   participants already in their rosters.  The entry "snapshot" of req holds the
   room collection as it was stored before the command; no step writes it. *)

\* SessionA with two more plain participants
SessionFive ==
    [SessionA EXCEPT !.participants = @ \o <<Participant("q1", FALSE, FALSE),
                                              Participant("q2", FALSE, FALSE)>>]

AutoStore ==
    /\ \E c1, c2 \in 1..MaxCap, q1, q2 \in Rosters(MaxCap),
          st1, st2 \in {"active", "closed"}, session \in {SessionA, SessionFive} :
          /\ Len(q1) <= c1
          /\ Len(q2) <= 1
          /\ rooms = [x \in {"r1", "r2"} |->
                         [NewRoom("s1", <<"a", "b">>, "h1", IF x = "r1" THEN c1 ELSE c2, "rtc")
                             EXCEPT !.participants = IF x = "r1" THEN q1 ELSE q2,
                                    !.v = IF x = "r1" THEN Len(q1) ELSE Len(q2),
                                    !.status = IF x = "r1" THEN st1 ELSE st2,
                                    !.closedAt = 0]]
          /\ events = SetToBag({CreatedEvent("s1", "r1"), CreatedEvent("s1", "r2")}
                                  \cup JoinedEvents("s1", "r1", q1)
                                  \cup JoinedEvents("s1", "r2", q2))
          /\ sessions = [x \in {"s1", "s2"} |->
                            IF x = "s1" THEN [session EXCEPT !.breakoutRooms = <<"r1", "r2">>]
                            ELSE SessionB]
    /\ clock = 0
    /\ client = NoClient
    /\ last = NoResponse
    /\ req = [s \in {"a", "snapshot"} |->
                 IF s = "a" THEN IdleReq
                 ELSE [IdleReq EXCEPT !.pc = "done", !.docs = rooms]]

AutoInit == AutoStore /\ ops = 1

AutoNext ==
    \/ \E actor \in Users, sid \in {"s1", "s0"} : AutoBegin("a", actor, sid)
    \/ AutoSave("a")
    \/ AutoPub("a")

SpecAuto == AutoInit /\ [][AutoNext]_vars

----------------------------------------------------------------------------
(* ListActiveRooms by any identity on any session id, on the stores of AutoInit *)

ListNext == \E actor \in Users, sid \in SessionParams : List("a", actor, sid)

SpecList == AutoInit /\ [][ListNext]_vars

----------------------------------------------------------------------------
(* The breakout manager of the host of s1: the host creates rooms, joins r1 and
   closes r1, the plain participant joins r1, one command at a time and each after
   the response to the previous CreateRoom has been handled, while the manager
   receives the events of the session *)

\* no component is mounted yet, on the stores of SeqStore
BrowserInit == SeqStore /\ ops = MaxOps

ManagerNext ==
    \/ MountManager
    \/ ManagerFetched
    \/ CreateResponded
    \/ OnBreakoutRoomCreated
    \/ OnBreakoutRoomJoinedOrLeft
    \/ OnBreakoutRoomClosed
    \/ /\ "manager" \in client.mounted
       /\ ~CreateResponseArrived
       /\ \E body \in Bodies : CreateBegin("a", Me, MySession, body, TRUE)
    \/ CreateSave("a")
    \/ CreateLink("a")
    \/ CreatePub("a")
    \/ /\ ~CreateResponseArrived
       /\ CloseBegin("a", Me, MySession, "r1")
    \/ /\ ~CreateResponseArrived
       /\ \E actor \in {Me, "p1"} : JoinBegin("a", actor, MySession, "r1")
    \/ JoinSave("a")
    \/ JoinPub1("a")
    \/ JoinPub2("a")
    \/ CloseSave("a")
    \/ ClosePub1("a")
    \/ ClosePub2("a")

SpecManager == BrowserInit /\ [][ManagerNext]_vars

----------------------------------------------------------------------------
(* The room space of r1 in the browser of the host of s1, while the participants
   of s1 join and leave r1 one at a time *)

SpaceNext ==
    \/ MountSpace
    \/ RoomInfoFetched
    \/ OnParticipantJoined
    \/ OnParticipantLeft
    \/ \E actor \in Members \cup {Me} : JoinBegin("a", actor, MySession, MyRoom)
    \/ JoinSave("a")
    \/ JoinPub1("a")
    \/ JoinPub2("a")
    \/ \E actor \in Members \cup {Me} : LeaveBegin("a", actor, MySession, MyRoom)
    \/ LeaveSave("a")
    \/ LeavePub1("a")
    \/ LeavePub2("a")

SpecSpace == BrowserInit /\ [][SpaceNext]_vars

----------------------------------------------------------------------------
(* JoinRoom and LeaveRoom on room r1 by clients that issue one command each and
   keep its response, their handlers interleaved at every await; the req entry
   "snapshot" keeps the room as it was before the commands *)

\* the clients of the race, as many as there are commands
RosterClients == {RaceRoster[i] : i \in 1..MaxOps}

RosterRaceInit ==
    /\ sessions = [x \in {"s1"} |->
                      [hostId |-> "h1",
                       participants |-> <<Participant("h1", TRUE, FALSE)>>
                            \o [i \in 1..Len(RaceRoster) |->
                                    Participant(RaceRoster[i], FALSE, FALSE)],
                       breakoutRooms |-> <<"r1">>]]
    /\ \E c \in 1..MaxCap, n \in 0..MaxCap :
          \E q \in [1..n -> RosterClients] :
             /\ n <= c
             /\ \A i, j \in 1..n : i # j => q[i] # q[j]
             /\ rooms = [x \in {"r1"} |->
                            [NewRoom("s1", <<"a", "b">>, "h1", c, "rtc")
                                EXCEPT !.participants = q, !.v = n]]
             /\ events = SetToBag({CreatedEvent("s1", "r1")} \cup JoinedEvents("s1", "r1", q))
    /\ clock = 0
    /\ client = NoClient
    /\ last = NoResponse
    /\ req = [u \in RosterClients \cup {"snapshot"} |->
                 IF u = "snapshot" THEN [IdleReq EXCEPT !.pc = "done", !.doc = rooms["r1"]]
                 ELSE IdleReq]
    /\ ops = MaxOps

RosterRaceNext ==
    \E u \in RosterClients :
        \/ JoinBegin(u, u, "s1", "r1")
        \/ JoinSave(u)
        \/ JoinPub1(u)
        \/ JoinPub2(u)
        \/ LeaveBegin(u, u, "s1", "r1")
        \/ LeaveSave(u)
        \/ LeavePub1(u)
        \/ LeavePub2(u)

SpecRosterRace == RosterRaceInit /\ [][RosterRaceNext]_vars

----------------------------------------------------------------------------
(* One command of any kind, run alone on the stores of AutoInit: the moderator or
   the plain participant joins or leaves r1, or the host closes r1, creates a room
   or assigns automatically *)

CommandNext ==
    \/ \E actor \in Members : JoinBegin("a", actor, "s1", "r1")
    \/ JoinSave("a")
    \/ JoinPub1("a")
    \/ JoinPub2("a")
    \/ \E actor \in Members : LeaveBegin("a", actor, "s1", "r1")
    \/ LeaveSave("a")
    \/ LeavePub1("a")
    \/ LeavePub2("a")
    \/ CloseBegin("a", "h1", "s1", "r1")
    \/ CloseSave("a")
    \/ ClosePub1("a")
    \/ ClosePub2("a")
    \/ \E body \in Bodies : CreateBegin("a", "h1", "s1", body, TRUE)
    \/ CreateSave("a")
    \/ CreateLink("a")
    \/ CreatePub("a")
    \/ AutoBegin("a", "h1", "s1")
    \/ AutoSave("a")
    \/ AutoPub("a")

SpecCommand == AutoInit /\ [][CommandNext]_vars

----------------------------------------------------------------------------
(* ListActiveRooms by any identity on s1, then a JoinRoom by the same identity on a
   room id of its choice, with no other command in flight, on the stores of AutoInit *)

ListJoinInit == AutoStore /\ ops = 2

ListJoinNext ==
    \/ /\ last = NoResponse
       /\ \E actor \in Users : List("a", actor, "s1")
    \/ /\ last.op = "list" /\ last.code = 200
       /\ \E rid \in SeqToSet(RoomIds) : JoinBegin("a", last.actor, "s1", rid)
    \/ JoinSave("a")
    \/ JoinPub1("a")
    \/ JoinPub2("a")

SpecListJoin == ListJoinInit /\ [][ListJoinNext]_vars

----------------------------------------------------------------------------
(* The session page in the browser of the host of s1, while the participants of
   s1 join and leave r1 one at a time *)

PageNext ==
    \/ MountPage
    \/ OnPageBreakoutRoomJoined
    \/ OnPageBreakoutRoomLeft
    \/ \E actor \in Members \cup {Me} : JoinBegin("a", actor, MySession, MyRoom)
    \/ JoinSave("a")
    \/ JoinPub1("a")
    \/ JoinPub2("a")
    \/ \E actor \in Members \cup {Me} : LeaveBegin("a", actor, MySession, MyRoom)
    \/ LeaveSave("a")
    \/ LeavePub1("a")
    \/ LeavePub2("a")

SpecPage == BrowserInit /\ [][PageNext]_vars

----------------------------------------------------------------------------
(* Properties *)

\* the requests that have passed their checks and not yet responded
InFlight == {s \in DOMAIN req : req[s].pc \notin {"idle", "done"}}

\* C1: the stored roster of an active room never holds more entries than the
\* room's maxParticipants, whatever the interleaving of concurrent JoinRoom calls
\* by distinct session participants.
CapacityRespected ==
    \A r \in DOMAIN rooms :
        rooms[r].status = "active" => Len(rooms[r].participants) <= rooms[r].maxParticipants

\* the clients whose JoinRoom returned success
RaceJoined == {u \in RaceUsers : req[u].pc = "done" /\ req[u].resp.code = 200}

\* C2: of k+5 concurrent JoinRoom calls by distinct participants on an empty room
\* of capacity k, exactly k return success and every other one returns the
\* room-is-full error (a call whose publish failed is left aside).
RaceExactlyK ==
    /\ Cardinality(RaceJoined) <= RaceCap
    /\ (\A u \in RaceUsers : req[u].pc = "done" /\ req[u].resp.code # 500)
          => /\ Cardinality(RaceJoined) = RaceCap
             /\ \A u \in RaceUsers \ RaceJoined : req[u].resp.kind = "full"

\* C3: a JoinRoom on a room whose status is closed is rejected: no join handler
\* gets past its checks holding a room document it read as closed.
JoinClosedRejected ==
    \A s \in DOMAIN req :
        (req[s].op = "join" /\ s \in InFlight) => req[s].doc.status # "closed"

\* C4: once a room is closed its roster never changes again.
ClosedRosterFrozen ==
    [][\A r \in DOMAIN rooms :
          rooms[r].status = "closed" => rooms'[r].participants = rooms[r].participants]_vars

\* C5: a participant id is in the roster of at most one active room of a session.
SingleRoomMembership ==
    \A r1 \in DOMAIN rooms, r2 \in DOMAIN rooms :
        (/\ r1 # r2
         /\ rooms[r1].sessionId = rooms[r2].sessionId
         /\ rooms[r1].status = "active"
         /\ rooms[r2].status = "active")
        => SeqToSet(rooms[r1].participants) \cap SeqToSet(rooms[r2].participants) = {}

\* C6: no room roster holds the same participant id twice.
NoDuplicateMember ==
    \A r \in DOMAIN rooms :
        \A i \in 1..Len(rooms[r].participants), j \in 1..Len(rooms[r].participants) :
            rooms[r].participants[i] = rooms[r].participants[j] => i = j

\* C7: closing a closed room is rejected or a no-op: in every step, a room has at
\* most one closure event per topic (room_closed on the room topic,
\* breakout_room_closed on the session topic) and the closedAt of a closed room
\* does not change.
CloseOnce ==
    [][/\ \A e \in BagToSet(events') :
            e.type \in {"room_closed", "breakout_room_closed"} => CopiesIn(e, events') <= 1
       /\ \A r \in DOMAIN rooms :
            rooms[r].status = "closed" => rooms'[r].closedAt = rooms[r].closedAt]_vars

\* C8: room status is monotonic: every stored room is active or closed, a room
\* enters the collection as active, no room leaves it, and a closed room stays
\* closed in every step of every handler.
StatusMonotonic ==
    [][/\ DOMAIN rooms \subseteq DOMAIN rooms'
       /\ \A r \in DOMAIN rooms' :
            /\ rooms'[r].status \in {"active", "closed"}
            /\ r \notin DOMAIN rooms => rooms'[r].status = "active"
            /\ (r \in DOMAIN rooms /\ rooms[r].status = "closed")
                  => rooms'[r].status = "closed"]_vars

\* C8 witness: a JoinRoom or LeaveRoom that read the room as active is about to
\* save it, and the room has been closed in between.
StaleWriterOfClosedRoom ==
    \E s \in DOMAIN req :
        /\ req[s].pc \in {"joinSave", "leaveSave"}
        /\ req[s].doc.status = "active"
        /\ rooms[req[s].rid].status = "closed"
        /\ rooms[req[s].rid].v = req[s].doc.v

\* C9: CloseRoom changes a room's status only on behalf of the host of the session
\* the request names, and an actor who is not that host gets 403 while every room
\* is left as it was.
CloseHostOnly ==
    [][/\ \A r \in DOMAIN rooms :
            rooms'[r].status # rooms[r].status
               => \E s \in DOMAIN req :
                     /\ req[s].pc = "closeSave" /\ req[s].rid = r
                     /\ req[s].sid \in DOMAIN sessions
                     /\ sessions[req[s].sid].hostId = req[s].actor
       /\ (/\ last' # last
           /\ last'.op = "close"
           /\ last'.sid \in DOMAIN sessions
           /\ sessions[last'.sid].hostId # last'.actor)
          => (last'.code = 403 /\ rooms' = rooms)
       /\ (last' # last /\ last'.op = "close" /\ last'.code = 200)
          => sessions[last'.sid].hostId = last'.actor]_vars

\* C9 witness: a CloseRoom by the moderator or by the plain participant of s1 on
\* a stored room of s1 was refused with 403, and that room is still active.
CloseRefused ==
    /\ last.op = "close" /\ last.code = 403
    /\ last.actor \in {"m1", "p1"} /\ last.sid = "s1"
    /\ last.rid \in DOMAIN rooms
    /\ rooms[last.rid].status = "active"

\* a current participant of the session with host or moderator privilege
Privileged(sid, actor) ==
    /\ sid \in DOMAIN sessions
    /\ \E i \in 1..Len(sessions[sid].participants) :
          /\ sessions[sid].participants[i].id = actor
          /\ sessions[sid].participants[i].isHost \/ sessions[sid].participants[i].isModerator

\* C10: a room is persisted only by a CreateRoom whose session exists and whose
\* actor is a participant of it with host or moderator privilege; a CreateRoom on
\* a missing session returns 404, one by a non-participant or an unprivileged
\* participant 403, and neither persists a room.
CreatePrivilegedOnly ==
    [][/\ \A r \in DOMAIN rooms' \ DOMAIN rooms :
            \E s \in DOMAIN req :
                /\ req[s].pc = "createSave" /\ req[s].rid = r
                /\ Privileged(req[s].sid, req[s].actor)
                /\ rooms'[r].sessionId = req[s].sid
       /\ (last' # last /\ last'.op = "create")
          => /\ last'.code = 200 => Privileged(last'.sid, last'.actor)
             /\ last'.sid \notin DOMAIN sessions => (last'.code = 404 /\ rooms' = rooms)
             /\ (last'.sid \in DOMAIN sessions /\ ~Privileged(last'.sid, last'.actor))
                   => (last'.code = 403 /\ rooms' = rooms)]_vars

\* C10 witness: the moderator of s1 has created a room, and a CreateRoom by the
\* plain participant was refused after it.
CreateRefusedAfterCreate ==
    /\ \E r \in DOMAIN rooms : rooms[r].createdBy = "m1" /\ rooms[r].sessionId = "s1"
    /\ last.op = "create" /\ last.code = 403 /\ last.actor = "p1" /\ last.sid = "s1"

\* C11: a CreateRoom whose maxParticipants is zero or negative is answered with an
\* invalid-argument error and stores nothing, so every stored room has
\* maxParticipants > 0.
CreateCapacityPositive == \A r \in DOMAIN rooms : rooms[r].maxParticipants > 0

\* the request body carries no name, or one whose trimmed length is below 2
NameTooShort(body) == "name" \notin DOMAIN body \/ Len(Trim(body.name)) < 2

\* C12: a CreateRoom whose name is missing or shorter than 2 characters once
\* trimmed is answered 400, stores no room, links nothing and publishes no event;
\* a CreateRoom with any other name holds a room named by the trimmed input, and
\* every room that enters the store carries the name its request holds, of length
\* at least 2.
CreateNameValidated ==
    [][/\ \A s \in Slots, body \in NameBodies, issuerOk \in BOOLEAN :
            CreateBegin(s, "h1", "s1", body, issuerOk) =>
                IF NameTooShort(body)
                THEN /\ last' = Response("create", "h1", "s1", "", 400, "name", 0)
                     /\ req'[s].pc = "idle"
                     /\ UNCHANGED <<sessions, rooms, events>>
                ELSE /\ req'[s].pc = "createSave"
                     /\ req'[s].doc.name = Trim(body.name)
       /\ \A r \in DOMAIN rooms' :
            /\ Len(rooms'[r].name) >= 2
            /\ r \notin DOMAIN rooms =>
                  \E s \in Slots : /\ req[s].pc = "createSave"
                                   /\ req[s].rid = r
                                   /\ rooms'[r].name = req[s].doc.name]_vars

\* a CreateRoom has been refused for its name after another one has stored a room
CreateNameRefused ==
    /\ last.op = "create" /\ last.code = 400 /\ last.kind = "name"
    /\ \E r \in DOMAIN rooms : Len(rooms[r].name) >= 2

\* number of positions of a session's room list that hold this room id
Links(list, rid) == Cardinality({i \in 1..Len(list) : list[i] = rid})

\* C13: when a CreateRoom answers 200, the store holds the room it names with
\* status active, an empty roster and the sessionId of the request, the room is
\* linked once into that session's room list, and the step puts the one
\* room-created event of this room on the bus, on the topic of that session;
\* every room-created event on the bus names a stored room of the session whose
\* topic it is on.
CreateEffect ==
    [][/\ \A s \in Slots :
            (/\ req[s].pc = "createPub"
             /\ req'[s].pc = "idle"
             /\ last' = Response("create", req[s].actor, req[s].sid, req[s].rid, 200, "ok", 0))
            => /\ req[s].rid \in DOMAIN rooms
               /\ rooms'[req[s].rid].status = "active"
               /\ rooms'[req[s].rid].participants = <<>>
               /\ rooms'[req[s].rid].sessionId = req[s].sid
               /\ Links(sessions'[req[s].sid].breakoutRooms, req[s].rid) = 1
               /\ \A e \in BagToSet(events') :
                     (e.type = "breakout_room_created" /\ e.rid = req[s].rid)
                        => /\ e = Event("session", req[s].sid, "breakout_room_created",
                                        req[s].rid, "")
                           /\ CopiesIn(e, events') = 1
                           /\ CopiesIn(e, events) = 0
               /\ BagIn(Event("session", req[s].sid, "breakout_room_created", req[s].rid, ""),
                        events')
       /\ \A e \in BagToSet(events') :
            e.type = "breakout_room_created"
               => /\ e.scope = "session"
                  /\ e.rid \in DOMAIN rooms'
                  /\ rooms'[e.rid].sessionId = e.key]_vars

\* the second CreateRoom of a behaviour has answered 200
CreateSucceededTwice ==
    /\ last.op = "create" /\ last.code = 200
    /\ Cardinality(DOMAIN rooms) = 2
    /\ \A r \in DOMAIN rooms : BagIn(Event("session", rooms[r].sessionId,
                                           "breakout_room_created", r, ""), events)

\* the token starts with temp_breakout_token_
Degraded(token) == token = "temp_breakout_token"

\* C14: a CreateRoom during which the credential issuer throws is refused only
\* for what would refuse it anyway (missing session, unprivileged actor, bad
\* name); otherwise it goes on to save a room whose token is the placeholder,
\* and a CreateRoom during which the issuer answers holds a token without the
\* placeholder prefix; the room that enters the store carries the token its
\* request holds, and a request that held the placeholder and answers 200 has
\* stored it.
CreateTokenFallback ==
    [][/\ \A s \in Slots, actor \in Users, sid \in SessionParams, body \in Bodies,
            issuerOk \in BOOLEAN :
            CreateBegin(s, actor, sid, body, issuerOk) =>
                IF sid \notin DOMAIN sessions \/ ~Privileged(sid, actor) \/ NameTooShort(body)
                THEN req'[s].pc = "idle" /\ last'.code \in {400, 403, 404}
                ELSE /\ req'[s].pc = "createSave"
                     /\ Degraded(req'[s].doc.token) <=> ~issuerOk
       /\ \A s \in Slots :
            /\ (req[s].pc = "createSave" /\ req'[s].pc = "createLink")
                  => /\ req[s].rid \notin DOMAIN rooms
                     /\ req[s].rid \in DOMAIN rooms'
                     /\ rooms'[req[s].rid].token = req[s].doc.token
                     /\ req'[s].doc = req[s].doc
            /\ (req[s].pc = "createPub" /\ req'[s].pc = "idle" /\ Degraded(req[s].doc.token))
                  => /\ last'.code \in {200, 500}
                     /\ Degraded(rooms'[req[s].rid].token)
       /\ \A r \in DOMAIN rooms : r \in DOMAIN rooms' /\ rooms'[r].token = rooms[r].token]_vars

\* a CreateRoom whose credential issuer threw has answered 200 and its room is
\* stored with the placeholder token
CreatedWithPlaceholder ==
    /\ last.op = "create" /\ last.code = 200
    /\ last.rid \in DOMAIN rooms
    /\ Degraded(rooms[last.rid].token)

\* the stored rooms with a roster entry whose id is no participant of the
\* session that owns the room
Strangers(store) ==
    {r \in DOMAIN store :
        \E i \in 1..Len(store[r].participants) :
            FindParticipant(sessions[store[r].sessionId].participants,
                            store[r].participants[i]) = 0}

\* C15: every roster entry of a stored room is the id of a participant of the
\* session that owns the room.  A JoinRoom passes its checks only for an actor
\* who is a participant of the session it names and for a room of that session;
\* the answer to a JoinRoom by an actor who is no participant of the session it
\* names is 403, the answer to a JoinRoom by a participant that names a stored
\* room of another session is 400, and the step that answers changes no room.
RosterOfOwningSession ==
    [][/\ Strangers(rooms') = {}
       /\ \A s \in Slots :
            (req[s].pc = "idle" /\ req'[s].pc = "joinSave")
               => /\ FindParticipant(sessions[req'[s].sid].participants, req'[s].actor) # 0
                  /\ rooms[req'[s].rid].sessionId = req'[s].sid
       /\ (ops' # ops /\ last'.op = "join" /\ last'.sid \in DOMAIN sessions)
            => IF FindParticipant(sessions[last'.sid].participants, last'.actor) = 0
               THEN last'.code = 403 /\ rooms' = rooms
               ELSE (last'.rid \in DOMAIN rooms /\ rooms[last'.rid].sessionId # last'.sid)
                       => last'.code = 400 /\ last'.kind = "wrongSession" /\ rooms' = rooms]_vars

\* a participant of both sessions has been refused in the room of the other
\* session after a join or an assignment has been stored
JoinOtherSessionRefused ==
    /\ last.op = "join" /\ last.kind = "wrongSession"
    /\ \E r \in DOMAIN rooms : rooms[r].participants # <<>>

\* C16: a JoinRoom whose roster append has been saved does not end before the
\* participant_joined event of its actor is on the room topic and the
\* breakout_room_joined event of its actor is on the session topic (once the
\* handler has ended nothing publishes them for it).
JoinEventsPublished ==
    [][\A s \in Slots :
          (req[s].pc \in {"joinPub1", "joinPub2"} /\ req'[s].pc = "idle")
             => /\ BagIn(Event("breakout", req[s].rid, "participant_joined",
                               req[s].rid, req[s].actor), events')
                /\ BagIn(Event("session", req[s].sid, "breakout_room_joined",
                               req[s].rid, req[s].actor), events')]_vars

\* the write of a handler that has reached its publish steps is in the store
Persisted(h, store, list) ==
    CASE h.op = "join" -> FindIndex(store[h.rid].participants, h.actor) # 0
      [] h.op = "leave" -> store[h.rid].participants = h.doc.participants
      [] h.op = "close" -> /\ store[h.rid].status = "closed"
                           /\ store[h.rid].closedAt = h.doc.closedAt
      [] h.op = "create" -> store[h.rid] = h.doc /\ Links(list, h.rid) = 1
      [] OTHER -> TRUE

\* C17: the step in which a publish of a JoinRoom, LeaveRoom, CreateRoom or
\* CloseRoom fails, after the handler's save, changes no room and no session
\* document, and the handler's write is still in the store after it: the joined
\* actor is in the roster, the roster is the one the leave wrote, the room is
\* closed with the closedAt written, the created room is stored and linked.
PublishFailureKeepsStore ==
    [][\A s \in DOMAIN req :
          (/\ req[s].pc \in {"joinPub1", "joinPub2", "leavePub1", "leavePub2",
                             "closePub1", "closePub2", "createPub"}
           /\ req'[s].pc = "idle"
           /\ last'.code = 500)
          => /\ rooms' = rooms
             /\ sessions' = sessions
             /\ Persisted(req[s], rooms', sessions'[req[s].sid].breakoutRooms)]_vars

\* a JoinRoom has answered 500 for a failed publish and its actor is in the roster
JoinFailedAfterSave ==
    /\ last.op = "join" /\ last.code = 500
    /\ FindIndex(rooms[last.rid].participants, last.actor) # 0

\* roster new is roster old without its entry at position i
Without(old, i, new) ==
    /\ Len(new) = Len(old) - 1
    /\ \A j \in 1..Len(new) : new[j] = IF j < i THEN old[j] ELSE old[j + 1]

\* C18: the save of a LeaveRoom takes one entry out of the room's roster, an
\* entry of the actor, and leaves the other entries and their order, the other
\* fields of the room, the other rooms and the session documents as they were;
\* the publish steps change no document, and the LeaveRoom answers 200 only with
\* participant_left of the actor published on the room topic and, in the
\* answering step, breakout_room_left published on the session topic.
LeaveEffect ==
    [][\A s \in DOMAIN req :
          /\ (req[s].pc = "leaveSave" /\ req'[s].pc = "leavePub1")
                => /\ \E i \in 1..Len(rooms[req[s].rid].participants) :
                        /\ rooms[req[s].rid].participants[i] = req[s].actor
                        /\ Without(rooms[req[s].rid].participants, i,
                                   rooms'[req[s].rid].participants)
                   /\ [rooms'[req[s].rid] EXCEPT !.participants = <<>>, !.v = 0]
                         = [rooms[req[s].rid] EXCEPT !.participants = <<>>, !.v = 0]
                   /\ \A r \in DOMAIN rooms \ {req[s].rid} : rooms'[r] = rooms[r]
                   /\ DOMAIN rooms' = DOMAIN rooms
                   /\ sessions' = sessions
          /\ (req[s].pc = "leavePub1" /\ req'[s].pc = "leavePub2")
                => /\ events' = events (+) SetToBag({Event("breakout", req[s].rid,
                                  "participant_left", req[s].rid, req[s].actor)})
                   /\ rooms' = rooms /\ sessions' = sessions
          /\ (req[s].pc = "leavePub2" /\ req'[s].pc = "idle" /\ last'.code = 200)
                => /\ last' = Response("leave", req[s].actor, req[s].sid, req[s].rid,
                                       200, "ok", Len(rooms[req[s].rid].participants))
                   /\ BagIn(Event("breakout", req[s].rid, "participant_left",
                                  req[s].rid, req[s].actor), events)
                   /\ events' = events (+) SetToBag({Event("session", req[s].sid,
                                  "breakout_room_left", req[s].rid, req[s].actor)})
                   /\ rooms' = rooms /\ sessions' = sessions]_vars

\* a LeaveRoom has answered 200, its actor is out of the roster and another
\* participant is still in it
LeftWithOthersRemaining ==
    /\ last.op = "leave" /\ last.code = 200
    /\ FindIndex(rooms[last.rid].participants, last.actor) = 0
    /\ rooms[last.rid].participants # <<>>

\* C19: a JoinRoom, LeaveRoom or CloseRoom passes its checks only on a stored
\* session and a stored room, a JoinRoom only for a participant of the session
\* who is not in the roster of a room with a free place, a LeaveRoom only for an
\* actor in the roster, a CloseRoom only for the host; a command that does not
\* pass them is answered with an error in the step that reads it, and that step
\* changes no room, no session and publishes nothing.
PreconditionsEnforced ==
    [][\A s \in DOMAIN req :
          /\ (req[s].pc = "idle" /\ req'[s].pc \in {"joinSave", "leaveSave", "closeSave"})
                => /\ req'[s].sid \in DOMAIN sessions
                   /\ req'[s].rid \in DOMAIN rooms
                   /\ req'[s].op = "join"
                         => /\ FindParticipant(sessions[req'[s].sid].participants,
                                               req'[s].actor) # 0
                            /\ FindIndex(rooms[req'[s].rid].participants, req'[s].actor) = 0
                            /\ Len(rooms[req'[s].rid].participants)
                                  < rooms[req'[s].rid].maxParticipants
                   /\ req'[s].op = "leave"
                         => FindIndex(rooms[req'[s].rid].participants, req'[s].actor) # 0
                   /\ req'[s].op = "close"
                         => sessions[req'[s].sid].hostId = req'[s].actor
          /\ (req[s].pc = "idle" /\ req'[s].pc = "idle" /\ ops' # ops)
                => /\ last'.code \in {400, 403, 404}
                   /\ UNCHANGED <<rooms, sessions, events>>]_vars

\* the actor of the sequence is a participant of s1, and the room as it was
\* before the first command is active, has a free place and does not hold the actor
RoundTripCase ==
    /\ Issued > 0
    /\ req["a"].pc = "idle"
    /\ FindParticipant(sessions["s1"].participants, last.actor) # 0
    /\ req["snapshot"].doc.status = "active"
    /\ Len(req["snapshot"].doc.participants) < req["snapshot"].doc.maxParticipants
    /\ FindIndex(req["snapshot"].doc.participants, last.actor) = 0

\* C20: for a participant of the session and an active room with a free place
\* that does not hold the participant, no command of the sequence JoinRoom,
\* LeaveRoom, JoinRoom is refused by a check (the answer is 200, or 500 when a
\* publish failed after the save); after every JoinRoom the ids in the stored
\* roster are those before the first JoinRoom and the actor's, and after the
\* LeaveRoom they are those before the first JoinRoom.
RoundTrip ==
    RoundTripCase =>
        /\ last.op = (IF Issued % 2 = 1 THEN "join" ELSE "leave")
        /\ last.kind \in {"ok", "failed"}
        /\ last.code \in {200, 500}
        /\ SeqToSet(rooms["r1"].participants) =
              IF Issued % 2 = 1
              THEN SeqToSet(req["snapshot"].doc.participants) \cup {last.actor}
              ELSE SeqToSet(req["snapshot"].doc.participants)

\* the second JoinRoom of the sequence has answered 200 in a room that held
\* another participant before the first one
RejoinedAfterLeave ==
    /\ RoundTripCase
    /\ Issued = 3
    /\ last.op = "join" /\ last.code = 200
    /\ req["snapshot"].doc.participants # <<>>
    /\ FindIndex(rooms["r1"].participants, last.actor) # 0

\* C21: the save of a CloseRoom sets status to closed and closedAt to the time the
\* handler read, and leaves the roster and every other field of the room, every
\* other room and the session documents as they were stored; the publish steps
\* change no document; room_closed is published on the room topic, and the
\* CloseRoom answers 200 in the step that publishes breakout_room_closed on the
\* session topic.
CloseEffect ==
    [][\A s \in DOMAIN req :
          /\ (req[s].pc = "closeSave" /\ req'[s].pc = "closePub1")
                => /\ rooms' = [rooms EXCEPT ![req[s].rid].status = "closed",
                                             ![req[s].rid].closedAt = req[s].doc.closedAt]
                   /\ sessions' = sessions
                   /\ events' = events
          /\ (req[s].pc = "closePub1" /\ req'[s].pc = "closePub2")
                => /\ events' = events (+) SetToBag({Event("breakout", req[s].rid,
                                  "room_closed", req[s].rid, "")})
                   /\ rooms' = rooms /\ sessions' = sessions
          /\ (req[s].pc = "closePub2" /\ req'[s].pc = "idle" /\ last'.code = 200)
                => /\ last' = Response("close", req[s].actor, req[s].sid, req[s].rid,
                                       200, "ok", 0)
                   /\ rooms[req[s].rid].status = "closed"
                   /\ BagIn(Event("breakout", req[s].rid, "room_closed", req[s].rid, ""),
                            events)
                   /\ events' = events (+) SetToBag({Event("session", req[s].sid,
                                  "breakout_room_closed", req[s].rid, "")})
                   /\ rooms' = rooms /\ sessions' = sessions]_vars

\* a CloseRoom has answered 200 on a room with a roster entry while the JoinRoom
\* that stored the entry is still in flight
ClosedWithLaterJoin ==
    /\ last.op = "close" /\ last.code = 200
    /\ rooms[last.rid].status = "closed"
    /\ rooms[last.rid].participants # <<>>
    /\ rooms[last.rid].v > 0
    /\ ops = 0
    /\ \E s \in DOMAIN req : req[s].op = "join" /\ req[s].rid = last.rid
                               /\ req[s].pc \in {"joinPub1", "joinPub2"}

\* the room collection as it was stored before the AutoAssign
Before == req["snapshot"].docs

\* the rooms of s1 that were active before the AutoAssign, in insertion order
ActiveBefore ==
    LET Test(r) == /\ r \in DOMAIN Before
                   /\ Before[r].sessionId = "s1"
                   /\ Before[r].status = "active"
    IN  SelectSeq(RoomIds, Test)

\* the participants of s1 that were in no roster of those rooms, in session order
UnassignedBefore ==
    LET Test(p) == \A r \in SeqToSet(ActiveBefore) :
                      \A k \in 1..Len(Before[r].participants) :
                          Before[r].participants[k] # p.id
    IN  SelectSeq(sessions["s1"].participants, Test)

\* the room the i-th unassigned participant (from 0) is offered
TargetOf(i) == ActiveBefore[(i % Len(ActiveBefore)) + 1]

\* the i-th unassigned participant is offered a room that the earlier ones
\* offered the same room have not filled
Commits(i) ==
    i \div Len(ActiveBefore)
        < Before[TargetOf(i)].maxParticipants - Len(Before[TargetOf(i)].participants)

\* the members of a set of indices in ascending order
Ascending(idx) ==
    [k \in 1..Cardinality(idx) |->
        CHOOSE i \in idx : Cardinality({j \in idx : j < i}) = k - 1]

\* the roster of room r after the run: the one before it, then the unassigned
\* participants whose room is r and who are not skipped, in session order
ExpectedRoster(r) ==
    LET idx == {i \in 0..(Len(UnassignedBefore) - 1) : TargetOf(i) = r /\ Commits(i)}
        order == Ascending(idx)
    IN  Before[r].participants
            \o [k \in 1..Len(order) |-> UnassignedBefore[order[k] + 1].id]

\* C22: an AutoAssign that runs alone and answers 200 leaves in every room that
\* was active the roster it had, followed by the unassigned participants i (from
\* 0, in session order, skipped ones counted) with activeRooms[i mod N] that room
\* and fewer earlier participants of that room than it had free places; other
\* rooms keep their roster.  The stored result is a function of the snapshot.
AutoDeterministic ==
    (req["a"].pc = "idle" /\ last.op = "auto" /\ last.code = 200)
        => \A r \in DOMAIN rooms :
              rooms[r].participants =
                  IF r \in SeqToSet(ActiveBefore) THEN ExpectedRoster(r)
                  ELSE Before[r].participants

\* the run of the example: five participants, none assigned, two rooms of two
\* places; the first and third are in r1, the second and fourth in r2, the fifth
\* in neither
AutoExampleRun ==
    /\ req["a"].pc = "idle" /\ last.op = "auto" /\ last.code = 200
    /\ Len(sessions["s1"].participants) = 5
    /\ Before["r1"].participants = <<>> /\ Before["r2"].participants = <<>>
    /\ rooms["r1"].participants = <<"h1", "p1">>
    /\ rooms["r2"].participants = <<"m1", "q1">>

\* C23: the save of an AutoAssign assignment happens only when the stored roster
\* of the target room is below maxParticipants, so that the assignment does not
\* take the stored roster above maxParticipants, whatever JoinRoom or AutoAssign
\* runs at the same time.
AutoCommitWithinCapacity ==
    [][\A s \in DOMAIN req :
          (req[s].pc = "autoSave" /\ req'[s].pc = "autoPub")
             => /\ Len(rooms[req[s].plan[1][2]].participants)
                      < rooms[req[s].plan[1][2]].maxParticipants
                /\ Len(rooms'[req[s].plan[1][2]].participants)
                      <= rooms'[req[s].plan[1][2]].maxParticipants]_vars

\* C24: an AutoAssign that runs alone saves an assignment only for a participant
\* who is in the stored roster of no room of the session that was active before
\* the run, neither from before the run nor from an earlier assignment of the
\* run; when every participant of the session was in such a roster, the command
\* is answered in the step that reads it, with no roster changed and nothing
\* published.
AutoAssignsUnassignedOnce ==
    [][/\ (req["a"].pc = "autoSave" /\ req'["a"].pc = "autoPub")
            => /\ req["a"].plan[1][2] \in SeqToSet(ActiveBefore)
               /\ \A r \in SeqToSet(ActiveBefore) :
                     /\ FindIndex(Before[r].participants, req["a"].plan[1][1]) = 0
                     /\ FindIndex(rooms[r].participants, req["a"].plan[1][1]) = 0
       /\ (/\ ops' # ops
           /\ last'.op = "auto" /\ last'.sid = "s1" /\ last'.actor = sessions["s1"].hostId
           /\ ActiveBefore # <<>>
           /\ UnassignedBefore = <<>>)
            => /\ req'["a"].pc = "idle"
               /\ last'.code = 200
               /\ rooms' = rooms
               /\ events' = events]_vars

\* an AutoAssign has found every participant of the session in a roster
AutoFoundAllAssigned ==
    /\ last.op = "auto" /\ last.code = 200
    /\ UnassignedBefore = <<>>
    /\ rooms = Before

\* C25: an AutoAssign by the host of a session that has no active room is
\* answered 400 in the step that reads it, changes no room and publishes nothing;
\* no assignment is ever saved to a room that was not active when the run read it.
AutoNeedsActiveRoom ==
    [][/\ (/\ ops' # ops
           /\ last'.op = "auto" /\ last'.sid = "s1" /\ last'.actor = sessions["s1"].hostId
           /\ ActiveBefore = <<>>)
            => /\ last' = Response("auto", last'.actor, "s1", "", 400, "noActiveRooms", 0)
               /\ req'["a"].pc = "idle"
               /\ rooms' = rooms
               /\ events' = events
       /\ (ops' # ops /\ ActiveBefore = <<>>) => req'["a"].pc = "idle"
       /\ rooms' # rooms => ActiveBefore # <<>>]_vars

\* the host's AutoAssign has been refused on a session whose two rooms are
\* closed, one of them with a place left and participants outside it
AutoRefusedNoActiveRoom ==
    /\ last.op = "auto" /\ last.kind = "noActiveRooms"
    /\ ActiveBefore = <<>>
    /\ \E r \in DOMAIN rooms :
          Len(rooms[r].participants) < rooms[r].maxParticipants
    /\ rooms = Before

\* C26: an AutoAssign passes its checks only for the host of the session it
\* names; the answer to an AutoAssign on a stored session by any other actor, a
\* moderator included, is 403, and the answering step changes no room and
\* publishes nothing.
AutoHostOnly ==
    [][/\ (req["a"].pc = "idle" /\ req'["a"].pc = "autoSave")
            => /\ req'["a"].sid \in DOMAIN sessions
               /\ req'["a"].actor = sessions[req'["a"].sid].hostId
       /\ (/\ ops' # ops
           /\ last'.op = "auto"
           /\ last'.sid \in DOMAIN sessions
           /\ last'.actor # sessions[last'.sid].hostId)
            => /\ last' = Response("auto", last'.actor, last'.sid, "", 403, "notHost", 0)
               /\ req'["a"].pc = "idle"
               /\ rooms' = rooms
               /\ events' = events
       /\ (\E r \in DOMAIN rooms : rooms'[r] # rooms[r])
            => req["a"].actor = sessions["s1"].hostId]_vars

\* the moderator's AutoAssign has been refused on a session with an active room
\* and a participant to assign
AutoRefusedModerator ==
    /\ last.op = "auto" /\ last.code = 403 /\ last.actor = "m1"
    /\ ActiveBefore # <<>>
    /\ UnassignedBefore # <<>>
    /\ rooms = Before

\* the notification of an assignment, as it is on the bus
Notification(pid, rid) ==
    [scope |-> "user", key |-> pid, type |-> "auto_assigned_to_breakout",
     rid |-> rid, who |-> pid]

\* the participants a run has stored in room r
Committed(store, r) ==
    {store[r].participants[k] : k \in 1..Len(store[r].participants)}
        \ {Before[r].participants[k] : k \in 1..Len(Before[r].participants)}

\* C27: in an AutoAssign the only step that publishes is the publish step
\* that follows the save of an assignment, and it publishes one notification, on
\* the topic of the participant just stored in the room it names; every
\* notification on the bus is there once and names a participant the run has
\* stored in that room; when the run answers 200, every participant it has
\* stored has a notification, and a participant it skipped has none.
AutoNotifications ==
    [][/\ events' # events
            => /\ req["a"].pc = "autoPub"
               /\ events' = events (+) SetToBag({Notification(req["a"].plan[1][1],
                                                               req["a"].plan[1][2])})
               /\ req["a"].plan[1][1] \in Committed(rooms, req["a"].plan[1][2])
       /\ \A e \in BagToSet(events') :
            e.scope = "user"
               => /\ CopiesIn(e, events') = 1
                  /\ e = Notification(e.who, e.rid)
                  /\ e.rid \in DOMAIN rooms'
                  /\ e.who \in Committed(rooms', e.rid)
       /\ (req["a"].pc = "autoPub" /\ req'["a"].pc = "idle" /\ last'.code = 200)
            => \A r \in DOMAIN rooms' : \A pid \in Committed(rooms', r) :
                  BagIn(Notification(pid, r), events')]_vars

\* a run has answered 200 after it stored and notified one participant and
\* skipped another, who has no notification
AutoNotifiedWithSkip ==
    /\ req["a"].pc = "idle" /\ last.op = "auto" /\ last.code = 200
    /\ \E r \in DOMAIN rooms : \E pid \in Committed(rooms, r) :
          BagIn(Notification(pid, r), events)
    /\ \E i \in 1..Len(UnassignedBefore) :
          /\ \A r \in DOMAIN rooms :
                FindIndex(rooms[r].participants, UnassignedBefore[i].id) = 0
          /\ \A e \in BagToSet(events) : e.scope = "user" => e.key # UnassignedBefore[i].id

\* C28: a ListActiveRooms by a participant of the session is answered 200 with
\* one entry for each stored room of that session whose status is active and no
\* other entry, and the canJoin of an entry is true exactly when the room is
\* active, has fewer roster entries than maxParticipants and does not hold the
\* actor; a ListActiveRooms on a stored session by an actor who is no participant
\* of it is answered 403.
ListExact ==
    (last.op = "list" /\ last.sid \in DOMAIN sessions)
        => IF \E i \in 1..Len(sessions[last.sid].participants) :
                  sessions[last.sid].participants[i].id = last.actor
           THEN /\ last.code = 200
                /\ {last.rooms[k].id : k \in 1..Len(last.rooms)}
                      = {r \in DOMAIN rooms : /\ rooms[r].sessionId = last.sid
                                              /\ rooms[r].status = "active"}
                /\ \A j, k \in 1..Len(last.rooms) :
                      last.rooms[j].id = last.rooms[k].id => j = k
                /\ \A k \in 1..Len(last.rooms) :
                      LET room == rooms[last.rooms[k].id]
                      IN  last.rooms[k].canJoin
                             <=> /\ room.status = "active"
                                 /\ Len(room.participants) < room.maxParticipants
                                 /\ \A i \in 1..Len(room.participants) :
                                       room.participants[i] # last.actor
           ELSE last.code = 403

\* a participant has listed the rooms of s1: a closed room is left out, and the
\* room listed has a free place but holds the participant, so canJoin is false
ListedOwnRoom ==
    /\ last.op = "list" /\ last.code = 200 /\ last.sid = "s1"
    /\ Len(last.rooms) = 1
    /\ Cardinality(DOMAIN rooms) = 2
    /\ ~last.rooms[1].canJoin
    /\ last.rooms[1].currentParticipants < last.rooms[1].maxParticipants

\* C29: the room list of the breakout manager holds each room id at most once,
\* whatever create responses, breakout_room_created events and re-fetches the
\* manager has handled
ManagerRoomsDistinct ==
    \A i, j \in 1..Len(client.breakoutRooms) :
        i # j => client.breakoutRooms[i] # client.breakoutRooms[j]

\* C30: the participant list of the room space holds each participant id at most
\* once, whatever participant_joined and participant_left events and whatever
\* initial fetch the room space has handled
SpaceParticipantsDistinct ==
    \A i, j \in 1..Len(client.participants) :
        i # j => client.participants[i] # client.participants[j]

\* C31: the status of a stored room changes only in the save of a CloseRoom that
\* names the session owning the room and is issued by the host of that session.
CloseByOwningHost ==
    [][\A r \in DOMAIN rooms :
          rooms'[r].status # rooms[r].status
             => \E s \in DOMAIN req :
                   /\ req[s].pc = "closeSave" /\ req[s].rid = r
                   /\ req[s].sid = rooms[r].sessionId
                   /\ sessions[rooms[r].sessionId].hostId = req[s].actor]_vars

\* C32: every breakout_room_joined, breakout_room_left and breakout_room_closed
\* event on the bus is on the topic of the session that owns the room it names.
SessionEventsOnOwningTopic ==
    \A e \in BagToSet(events) :
        (/\ e.scope = "session"
         /\ e.type \in {"breakout_room_joined", "breakout_room_left", "breakout_room_closed"}
         /\ e.rid \in DOMAIN rooms)
           => e.key = rooms[e.rid].sessionId

\* every client of the race has its response
AllAnswered == \A u \in RosterClients : req[u].pc = "done"

\* C33: once every JoinRoom and LeaveRoom of the race has been answered, the
\* stored roster of r1 holds every client whose JoinRoom was answered 200 and
\* none whose LeaveRoom was answered 200, and no client is in it twice.
NoLostRosterUpdate ==
    AllAnswered
       => /\ \A u \in RosterClients :
                /\ (req[u].resp.op = "join" /\ req[u].resp.code = 200)
                      => \E i \in 1..Len(rooms["r1"].participants) :
                            rooms["r1"].participants[i] = u
                /\ (req[u].resp.op = "leave" /\ req[u].resp.code = 200)
                      => \A i \in 1..Len(rooms["r1"].participants) :
                            rooms["r1"].participants[i] # u
          /\ \A i, j \in 1..Len(rooms["r1"].participants) :
                i # j => rooms["r1"].participants[i] # rooms["r1"].participants[j]

\* C33 witness: the LeaveRoom of q1, who was alone in r1, and the JoinRoom of q2
\* were both answered 200, and the roster is q2 alone.
JoinAndLeaveSucceeded ==
    /\ AllAnswered
    /\ req["snapshot"].doc.participants = <<"q1">>
    /\ req["q1"].resp.op = "leave" /\ req["q1"].resp.code = 200
    /\ req["q2"].resp.op = "join" /\ req["q2"].resp.code = 200
    /\ rooms["r1"].participants = <<"q2">>

\* C34: when the one command of a run has been answered with an error, the room
\* collection is the one stored before the command and every session links the
\* rooms it linked before the command.
ErrorMeansNoChange ==
    (req["a"].pc = "idle" /\ last.code \notin {0, 200})
       => /\ rooms = req["snapshot"].docs
          /\ sessions["s1"].breakoutRooms = <<"r1", "r2">>
          /\ sessions["s2"].breakoutRooms = <<>>

\* the roster appends stored since the AutoAssign began
CommittedAppends ==
    LET Grown(r) == Len(rooms[r].participants) - Len(Before[r].participants)
    IN  Grown("r1") + Grown("r2")

\* C35: the assignedCount of an AutoAssign answered 200 is the number of roster
\* appends the run has stored.
AssignedCountIsCommitted ==
    (req["a"].pc = "idle" /\ last.op = "auto" /\ last.code = 200)
       => last.n = CommittedAppends

\* the position of a room id in the room list of a response, 0 when it is not listed
Listed(roomList, rid) ==
    IF \E k \in 1..Len(roomList) : roomList[k].id = rid
    THEN CHOOSE k \in 1..Len(roomList) : roomList[k].id = rid
    ELSE 0

\* C36: with no other command in flight, a JoinRoom on a room that the
\* ListActiveRooms just answered to the same actor has listed passes its checks
\* exactly when the listed canJoin is true, is refused with an error in that step
\* exactly when it is false, and a JoinRoom that passed them is answered 200
\* unless one of its publish calls fails.
ListAgreesWithJoin ==
    [][/\ (/\ last.op = "list" /\ last.code = 200
           /\ req["a"].pc = "idle" /\ ops' # ops
           /\ Listed(last.rooms, IF req'["a"].pc = "joinSave" THEN req'["a"].rid
                                 ELSE last'.rid) # 0)
          => LET rid == IF req'["a"].pc = "joinSave" THEN req'["a"].rid ELSE last'.rid
                 summary == last.rooms[Listed(last.rooms, rid)]
             IN  /\ summary.canJoin <=> req'["a"].pc = "joinSave"
                 /\ ~summary.canJoin <=> (last'.op = "join" /\ last'.code \in {400, 403, 404})
       /\ (req["a"].pc \in {"joinPub1", "joinPub2"} /\ last' # last)
          => \/ last'.op = "join" /\ last'.code = 200 /\ events' # events
             \/ last'.code = 500 /\ events' = events]_vars

\* C36 witness: a JoinRoom on a room listed with canJoin true was answered 200
\* and the actor is in its roster; the ListActiveRooms before it was the only
\* other command.
JoinedListedRoom ==
    /\ ops = 0 /\ req["a"].pc = "idle"
    /\ last.op = "join" /\ last.code = 200
    /\ FindIndex(req["snapshot"].docs[last.rid].participants, last.actor) = 0
    /\ FindIndex(rooms[last.rid].participants, last.actor) # 0

\* C36 witness of the other side: a JoinRoom on a listed room of which the actor
\* is already a member was refused.
JoinRefusedOnListedRoom ==
    /\ ops = 0 /\ req["a"].pc = "idle"
    /\ last.op = "join" /\ last.code = 400
    /\ last.rid \in DOMAIN rooms
    /\ rooms[last.rid].status = "active"
    /\ FindIndex(rooms[last.rid].participants, last.actor) # 0

\* C37: when the breakout manager has applied the response of a re-fetch,
\* currentUserRoom is the id of a fetched room whose roster holds the current
\* user, and null when no fetched room holds the user.
CurrentUserRoomFollowsFetch ==
    [][(/\ client.inflight # <<>>
        /\ client.inflight[1].to = "manager"
        /\ client'.inflight = <<>>)
          => LET roomList == client.inflight[1].rooms
                 mine == {k \in 1..Len(roomList) :
                             \E i \in 1..Len(roomList[k].participants) :
                                roomList[k].participants[i] = Me}
             IN  IF mine = {} THEN client'.currentUserRoom = ""
                 ELSE \E k \in mine : client'.currentUserRoom = roomList[k].id]_vars

\* C38: a breakout_room_joined or breakout_room_left event about another
\* participant, handed to the session page, leaves currentBreakoutRoom as it was.
OthersEventsKeepIndicator ==
    [][(/\ client'.delivered # client.delivered
        /\ client'.received # <<>>
        /\ client'.received[1].who # Me)
          => client'.currentBreakoutRoom = client.currentBreakoutRoom]_vars

====
